---- MODULE Spec2Model ----
(***************************************************************************)
(* A model of youtrack_sdk: the field-projection engine                    *)
(* (helpers.model_to_field_names), the entity codec (helpers.obj_to_dict,  *)
(* the timestamp encoder and the pydantic decode of entities.py), the      *)
(* merge they share (helpers.deep_update), the datetime validator of       *)
(* types.py, and what async_client.py makes of the response to a request.  *)
(*                                                                         *)
(* Python values are records [k |-> <type name>, v |-> <payload>]; a dict  *)
(* is the sequence of its <<key, value>> items in insertion order, so the  *)
(* order a selector lists its fields in is part of the model.  A raised    *)
(* exception is the value Raise(<exception class>).                        *)
(***************************************************************************)
EXTENDS Integers, Sequences, FiniteSets, TLC

VARIABLES
    projModel,    \* the type given to the last model_to_field_names call
    projFields,   \* its fields_dict (helpers.py:97), or the exception raised
    projResult,   \* what the call returned, or the exception raised
    encObj,       \* the entity given to the last obj_to_json call
    encDict,      \* what obj_to_dict made of it
    encWire,      \* the JSON it was sent as
    decTarget,    \* the type the last payload was decoded against
    decPayload,   \* that payload
    decResult,    \* the entity decoded, or the exception raised
    dumpObj,      \* the structure given to the last custom_json_dumps call
    dumpWire,     \* the JSON it was rendered as, or the exception raised
    valValue,     \* the candidate given to the last validate_youtrack_datetime call
    valData,      \* info.data of that call
    valResult,    \* what the validator returned, or the exception raised
    reqCall,      \* the client call made last
    respStatus,   \* the status code of the response to its request
    respContent,  \* the content of that response
    callOutcome,  \* what the call returned, or the exception raised
    lookupIssue,  \* the issue given to the last get_issue_custom_field call
    lookupName,   \* the field name given to it
    lookupResult, \* the custom field returned, or the exception raised
    urlArgs,      \* the keyword arguments of the last _build_url call
    urlResult,    \* the URL it returned
    mergeArgs,    \* the dicts given to the last deep_update calls
    mergeResult,  \* what the calls returned, or the exceptions raised
    mergeAfter,   \* its arguments as the caller holds them after the call
    httpClient,   \* the state of the httpx client the AsyncClient holds
    block,        \* where the caller is about its async with block
    tasks,        \* the calls in flight on the client, by task
    running       \* the task that holds the event loop, NoTask when none does

projVars == <<projModel, projFields, projResult>>
codecVars == <<encObj, encDict, encWire, decTarget, decPayload, decResult>>
dumpVars == <<dumpObj, dumpWire>>
validatorVars == <<valValue, valData, valResult>>
clientVars == <<reqCall, respStatus, respContent, callOutcome>>
lookupVars == <<lookupIssue, lookupName, lookupResult>>
urlVars == <<urlArgs, urlResult>>
mergeVars == <<mergeArgs, mergeResult, mergeAfter>>
asyncVars == <<httpClient, block, tasks, running>>
vars == <<projVars, codecVars, dumpVars, validatorVars, clientVars,
          lookupVars, urlVars, mergeVars, asyncVars>>

-----------------------------------------------------------------------------
(* Bounds *)

\* Frames Python allows before RecursionError (sys.getrecursionlimit(),
\* 1000 by default), counted in schema_to_fields calls and scaled down.
RecursionLimit == 6

-----------------------------------------------------------------------------
(* Constants of the program *)

\* timedelta(hours=12) and time(hour=12), in seconds
TwelveHours == 43200
\* HTTPStatus.NOT_FOUND, HTTPStatus.UNAUTHORIZED
NOT_FOUND == 404
UNAUTHORIZED == 401
\* A day of the calendar, in seconds
SecondsPerDay == 86400

-----------------------------------------------------------------------------
(* Python values *)

PyNone == [k |-> "NoneType", v |-> <<>>]
PyStr(s) == [k |-> "str", v |-> s]
\* A Python int is unbounded: n is kept as <<n div 1000, n mod 1000>>, so
\* that a timestamp in milliseconds is <<seconds, milliseconds>>
PyInt(i) == [k |-> "int", v |-> <<i \div 1000, i % 1000>>]
MsInt(seconds, milliseconds) == [k |-> "int", v |-> <<seconds, milliseconds>>]
PyBool(b) == [k |-> "bool", v |-> b]
\* A float, by its repr: "1.5", or "nan" and "inf" for the values that are
\* not finite
PyFloat(repr) == [k |-> "float", v |-> repr]
PyDict(items) == [k |-> "dict", v |-> items]
PyList(xs) == [k |-> "list", v |-> xs]
PyTuple(xs) == [k |-> "tuple", v |-> xs]
Raise(exc) == [k |-> "raise", v |-> exc]
IsRaise(x) == x.k = "raise"
EmptyDict == PyDict(<<>>)

\* key in d
HasKey(d, key) == \E i \in DOMAIN d.v : d.v[i][1] = key
\* d[key]
Get(d, key) == d.v[CHOOSE i \in DOMAIN d.v : d.v[i][1] = key][2]
\* d.get(key, default)
GetOr(d, key, default) == IF HasKey(d, key) THEN Get(d, key) ELSE default
\* d[key] = val: an existing key keeps its position, a new one goes last
Put(d, key, val) ==
    IF HasKey(d, key)
    THEN PyDict([i \in 1..Len(d.v) |->
                    IF d.v[i][1] = key THEN <<key, val>> ELSE d.v[i]])
    ELSE PyDict(Append(d.v, <<key, val>>))
Keys(d) == [i \in 1..Len(d.v) |-> d.v[i][1]]
KeySet(d) == {d.v[i][1] : i \in 1..Len(d.v)}

\* The first exception among xs, a sequence of values some of which raised
FirstRaise(xs) == xs[CHOOSE i \in 1..Len(xs) :
                        IsRaise(xs[i]) /\ \A j \in 1..(i - 1) : ~IsRaise(xs[j])]
AnyRaise(xs) == \E i \in DOMAIN xs : IsRaise(xs[i])

-----------------------------------------------------------------------------
(* helpers.deep_update *)

RECURSIVE DeepUpdateOne(_, _)

\* list(starmap(deep_update, zip(a, b, strict=True))), a and b of one length
ZipDeepUpdate(a, b) ==
    LET rs == [i \in 1..Len(a.v) |-> DeepUpdateOne(a.v[i], b.v[i])]
    IN  IF AnyRaise(rs) THEN FirstRaise(rs) ELSE PyList(rs)

\* A merge that overwrites like dict.update instead of descending
UpdateItemShallow(result, key, value) == value

\* The body of `for key, value in source.items()` for one item: what it
\* stores in result[key], or what it raises
UpdateItem(result, key, value) ==
    CASE ~HasKey(result, key) -> value
      [] HasKey(result, key) /\ Get(result, key).k # value.k ->
            Raise("TypeError")
      [] HasKey(result, key) /\ Get(result, key).k = value.k /\ value.k = "dict" ->
            DeepUpdateOne(Get(result, key), value)
      [] HasKey(result, key) /\ Get(result, key).k = value.k /\ value.k = "list"
            /\ Len(Get(result, key).v) # Len(value.v) ->
            Raise("TypeError")
      [] HasKey(result, key) /\ Get(result, key).k = value.k /\ value.k = "list"
            /\ Len(Get(result, key).v) = Len(value.v) ->
            ZipDeepUpdate(Get(result, key), value)
      [] OTHER -> value

\* `for key, value in source.items()`: the keys of a dict are distinct, so
\* each item meets what result had under its key before the loop.  The loop
\* raises what its first failing item raises; otherwise the keys of result
\* keep their places and the new keys follow in the order of the items.
UpdateItems(result, items) ==
    LET stored == [i \in DOMAIN items |->
                      UpdateItem(result, items[i][1], items[i][2])]
        StoredFor(key) == stored[CHOOSE i \in DOMAIN items : items[i][1] = key]
        IsNew(item) == ~HasKey(result, item[1])
        old == [j \in DOMAIN result.v |->
                  IF \E i \in DOMAIN items : items[i][1] = result.v[j][1]
                  THEN <<result.v[j][1], StoredFor(result.v[j][1])>>
                  ELSE result.v[j]]
        new == SelectSeq([i \in DOMAIN items |-> <<items[i][1], stored[i]>>], IsNew)
    IN  IF \E i \in DOMAIN stored : IsRaise(stored[i]) THEN FirstRaise(stored)
        ELSE PyDict(old \o new)

\* deep_update(dest, source): one pass of `for source in mappings`.
\* source.items() exists for a dict only; result[key] needs a dict result.
DeepUpdateOne(dest, source) ==
    CASE source.k # "dict" -> Raise("AttributeError")
      [] source.k = "dict" /\ Len(source.v) = 0 -> dest
      [] source.k = "dict" /\ Len(source.v) > 0 /\ dest.k # "dict" ->
            Raise("TypeError")
      [] OTHER -> UpdateItems(dest, source.v)

\* `for source in mappings` over mappings lo..hi in order, stopping at the
\* first pass that raises; the range is walked as its two halves, the
\* first before the second
RECURSIVE DeepUpdateFrom(_, _, _, _)
DeepUpdateFrom(result, mappings, lo, hi) ==
    CASE result.k = "raise" -> result
      [] result.k # "raise" /\ lo = hi -> DeepUpdateOne(result, mappings[lo])
      [] OTHER ->
            DeepUpdateFrom(DeepUpdateFrom(result, mappings, lo, (lo + hi) \div 2),
                           mappings, (lo + hi) \div 2 + 1, hi)

\* deep_update(dest, *mappings); an argument that raised is raised before
\* the call is made
DeepUpdate(dest, mappings) ==
    CASE \E i \in DOMAIN mappings : IsRaise(mappings[i]) -> FirstRaise(mappings)
      [] (\A i \in DOMAIN mappings : ~IsRaise(mappings[i])) /\ Len(mappings) = 0 -> dest
      [] OTHER -> DeepUpdateFrom(dest, mappings, 1, Len(mappings))

\* deep_update with `result = dest` for the copy: dest is the dict the
\* loop writes to
DestAfterInPlace(dest, result) == IF IsRaise(result) THEN dest ELSE result
\* The caller's dest after deep_update(dest, *mappings) returned result:
\* result is deepcopy(dest) and the loop writes to result only
DestAfter(dest, result) == dest

RECURSIVE DictEq(_, _)
\* a == b for dicts, lists and scalars: dicts with the same keys and equal
\* values under them, in whatever order
DictEq(a, b) ==
    CASE a.k # b.k -> FALSE
      [] a.k = b.k /\ a.k = "dict" ->
            /\ KeySet(a) = KeySet(b)
            /\ \A key \in KeySet(a) : DictEq(Get(a, key), Get(b, key))
      [] a.k = b.k /\ a.k \in {"list", "tuple"} ->
            /\ Len(a.v) = Len(b.v)
            /\ \A i \in DOMAIN a.v : DictEq(a.v[i], b.v[i])
      [] OTHER -> a = b

-----------------------------------------------------------------------------
(* Type annotations.  A type expression is [k, n, a, v]: its kind, its     *)
(* name, its type arguments and, for a Literal, its values.                *)

TCls(c) == [k |-> "class", n |-> c, a |-> <<>>, v |-> <<>>]
TPrim(p) == [k |-> "prim", n |-> p, a |-> <<>>, v |-> <<>>]
TStr == TPrim("str")
TInt == TPrim("int")
TBool == TPrim("bool")
TFloat == TPrim("float")
TStrictStr == TPrim("StrictStr")
TStrictInt == TPrim("StrictInt")
TStrictFloat == TPrim("StrictFloat")
TAwareDatetime == TPrim("AwareDatetime")
TDate == TPrim("date")
TNone == TPrim("NoneType")
TLiteral(vals) == [k |-> "Literal", n |-> "", a |-> <<>>, v |-> vals]
TUnion(ms) == [k |-> "Union", n |-> "", a |-> ms, v |-> <<>>]
TOptional(t) == TUnion(<<t, TNone>>)
TSequence(t) == [k |-> "Sequence", n |-> "", a |-> <<t>>, v |-> <<>>]
\* Annotated[t, Field(discriminator="type")]
TAnnotated(t) == [k |-> "Annotated", n |-> "discriminator", a |-> <<t>>, v |-> <<>>]
\* Annotated[t, BeforeValidator(...)]
TBefore(t) == [k |-> "Annotated", n |-> "BeforeValidator", a |-> <<t>>, v |-> <<>>]
\* type <name> = t
TAlias(name, t) == [k |-> "TypeAliasType", n |-> name, a |-> <<t>>, v |-> <<>>]

YouTrackDate == TAlias("YouTrackDate", TBefore(TDate))
YouTrackDateTime == TAlias("YouTrackDateTime", TBefore(TAwareDatetime))

\* One declared field: attribute name, wire alias, annotation, default
Fld(name, alias, ann, default) ==
    [name |-> name, alias |-> alias, ann |-> ann, default |-> default]
\* A field without a declared default taken as one that defaults to None
RequiredDefaultNone == [has |-> TRUE, val |-> PyNone]
\* A field without a declared default
Required == [has |-> FALSE, val |-> PyNone]
DefaultNone == [has |-> TRUE, val |-> PyNone]
Default(tag) == [has |-> TRUE, val |-> PyStr(tag)]

-----------------------------------------------------------------------------
(* entities.py: the fields of every entity, in declaration order (an       *)
(* inherited field comes first)                                            *)

User ==
  <<Fld("type", "$type", TLiteral(<<"User", "Me">>), Default("User")),
    Fld("id", "id", TOptional(TStr), DefaultNone),
    Fld("name", "name", TOptional(TStr), DefaultNone),
    Fld("ring_id", "ringId", TOptional(TStr), DefaultNone),
    Fld("login", "login", TOptional(TStr), DefaultNone),
    Fld("email", "email", TOptional(TStr), DefaultNone)>>

TextFieldValue ==
  <<Fld("type", "$type", TLiteral(<<"TextFieldValue">>), Default("TextFieldValue")),
    Fld("id", "id", TOptional(TStr), DefaultNone),
    Fld("text", "text", TOptional(TStr), DefaultNone),
    Fld("markdownText", "markdownText", TOptional(TStr), DefaultNone)>>

PeriodValue ==
  <<Fld("type", "$type", TLiteral(<<"PeriodValue">>), Default("PeriodValue")),
    Fld("id", "id", TOptional(TStr), DefaultNone),
    Fld("minutes", "minutes", TOptional(TInt), DefaultNone),
    Fld("presentation", "presentation", TOptional(TStr), DefaultNone)>>

DurationValue ==
  <<Fld("type", "$type", TLiteral(<<"DurationValue">>), Default("DurationValue")),
    Fld("id", "id", TOptional(TStr), DefaultNone),
    Fld("minutes", "minutes", TOptional(TInt), DefaultNone),
    Fld("presentation", "presentation", TOptional(TStr), DefaultNone)>>

BuildBundleElement ==
  <<Fld("type", "$type", TLiteral(<<"BuildBundleElement">>), Default("BuildBundleElement")),
    Fld("id", "id", TOptional(TStr), DefaultNone),
    Fld("name", "name", TOptional(TStr), DefaultNone)>>

VersionBundleElement ==
  <<Fld("type", "$type", TLiteral(<<"VersionBundleElement">>), Default("VersionBundleElement")),
    Fld("id", "id", TOptional(TStr), DefaultNone),
    Fld("name", "name", TOptional(TStr), DefaultNone)>>

OwnedBundleElement ==
  <<Fld("type", "$type", TLiteral(<<"OwnedBundleElement">>), Default("OwnedBundleElement")),
    Fld("id", "id", TOptional(TStr), DefaultNone),
    Fld("name", "name", TOptional(TStr), DefaultNone)>>

EnumBundleElement ==
  <<Fld("type", "$type", TLiteral(<<"EnumBundleElement">>), Default("EnumBundleElement")),
    Fld("id", "id", TOptional(TStr), DefaultNone),
    Fld("name", "name", TOptional(TStr), DefaultNone)>>

StateBundleElement ==
  <<Fld("type", "$type", TLiteral(<<"StateBundleElement">>), Default("StateBundleElement")),
    Fld("id", "id", TOptional(TStr), DefaultNone),
    Fld("name", "name", TOptional(TStr), DefaultNone)>>

BundleElement ==
  TAnnotated(TUnion(<<
    TCls("BuildBundleElement"),
    TCls("VersionBundleElement"),
    TCls("OwnedBundleElement"),
    TCls("EnumBundleElement"),
    TCls("StateBundleElement")>>))

UserGroup ==
  <<Fld("type", "$type", TLiteral(<<"UserGroup">>), Default("UserGroup")),
    Fld("id", "id", TOptional(TStr), DefaultNone),
    Fld("name", "name", TOptional(TStr), DefaultNone),
    Fld("ring_id", "ringId", TOptional(TStr), DefaultNone)>>

FieldType ==
  <<Fld("type", "$type", TLiteral(<<"FieldType">>), Default("FieldType")),
    Fld("id", "id", TOptional(TStr), DefaultNone)>>

CustomField ==
  <<Fld("type", "$type", TLiteral(<<"CustomField">>), Default("CustomField")),
    Fld("field_type", "fieldType", TOptional(TCls("FieldType")), DefaultNone)>>

ProjectCustomField ==
  <<Fld("field", "field", TOptional(TCls("CustomField")), DefaultNone)>>

GroupProjectCustomField ==
  <<Fld("field", "field", TOptional(TCls("CustomField")), DefaultNone),
    Fld("type", "$type", TLiteral(<<"GroupProjectCustomField">>), Default("GroupProjectCustomField"))>>

BundleProjectCustomField ==
  <<Fld("type", "$type", TLiteral(<<"BundleProjectCustomField">>), Default("BundleProjectCustomField")),
    Fld("field", "field", TOptional(TCls("CustomField")), DefaultNone)>>

BuildProjectCustomField ==
  <<Fld("type", "$type", TLiteral(<<"BuildProjectCustomField">>), Default("BuildProjectCustomField")),
    Fld("field", "field", TOptional(TCls("CustomField")), DefaultNone)>>

EnumProjectCustomField ==
  <<Fld("type", "$type", TLiteral(<<"EnumProjectCustomField">>), Default("EnumProjectCustomField")),
    Fld("field", "field", TOptional(TCls("CustomField")), DefaultNone)>>

OwnedProjectCustomField ==
  <<Fld("type", "$type", TLiteral(<<"OwnedProjectCustomField">>), Default("OwnedProjectCustomField")),
    Fld("field", "field", TOptional(TCls("CustomField")), DefaultNone)>>

StateProjectCustomField ==
  <<Fld("type", "$type", TLiteral(<<"StateProjectCustomField">>), Default("StateProjectCustomField")),
    Fld("field", "field", TOptional(TCls("CustomField")), DefaultNone)>>

UserProjectCustomField ==
  <<Fld("type", "$type", TLiteral(<<"UserProjectCustomField">>), Default("UserProjectCustomField")),
    Fld("field", "field", TOptional(TCls("CustomField")), DefaultNone)>>

VersionProjectCustomField ==
  <<Fld("type", "$type", TLiteral(<<"VersionProjectCustomField">>), Default("VersionProjectCustomField")),
    Fld("field", "field", TOptional(TCls("CustomField")), DefaultNone)>>

SimpleProjectCustomField ==
  <<Fld("type", "$type", TLiteral(<<"SimpleProjectCustomField">>), Default("SimpleProjectCustomField")),
    Fld("field", "field", TOptional(TCls("CustomField")), DefaultNone)>>

TextProjectCustomField ==
  <<Fld("type", "$type", TLiteral(<<"TextProjectCustomField">>), Default("TextProjectCustomField")),
    Fld("field", "field", TOptional(TCls("CustomField")), DefaultNone)>>

PeriodProjectCustomField ==
  <<Fld("type", "$type", TLiteral(<<"PeriodProjectCustomField">>), Default("PeriodProjectCustomField")),
    Fld("field", "field", TOptional(TCls("CustomField")), DefaultNone)>>

ProjectCustomFieldType ==
  TAnnotated(TUnion(<<
    TCls("GroupProjectCustomField"),
    TCls("BundleProjectCustomField"),
    TCls("BuildProjectCustomField"),
    TCls("EnumProjectCustomField"),
    TCls("OwnedProjectCustomField"),
    TCls("StateProjectCustomField"),
    TCls("UserProjectCustomField"),
    TCls("VersionProjectCustomField"),
    TCls("SimpleProjectCustomField"),
    TCls("TextProjectCustomField"),
    TCls("PeriodProjectCustomField")>>))

IssueCustomField ==
  <<Fld("id", "id", TOptional(TStr), DefaultNone),
    Fld("name", "name", TOptional(TStr), DefaultNone),
    Fld("project_custom_field", "projectCustomField", TOptional(ProjectCustomFieldType), DefaultNone)>>

TextIssueCustomField ==
  <<Fld("type", "$type", TLiteral(<<"TextIssueCustomField">>), Default("TextIssueCustomField")),
    Fld("id", "id", TOptional(TStr), DefaultNone),
    Fld("name", "name", TOptional(TStr), DefaultNone),
    Fld("value", "value", TOptional(TCls("TextFieldValue")), DefaultNone)>>

SimpleIssueCustomField ==
  <<Fld("type", "$type", TLiteral(<<"SimpleIssueCustomField">>), Default("SimpleIssueCustomField")),
    Fld("id", "id", TOptional(TStr), DefaultNone),
    Fld("name", "name", TOptional(TStr), DefaultNone),
    Fld("project_custom_field", "projectCustomField", TOptional(ProjectCustomFieldType), DefaultNone),
    Fld("value", "value", TOptional(TUnion(<<YouTrackDateTime, TStrictStr, TStrictInt, TStrictFloat>>)), DefaultNone)>>

DateIssueCustomField ==
  <<Fld("type", "$type", TLiteral(<<"DateIssueCustomField">>), Default("DateIssueCustomField")),
    Fld("id", "id", TOptional(TStr), DefaultNone),
    Fld("name", "name", TOptional(TStr), DefaultNone),
    Fld("project_custom_field", "projectCustomField", TOptional(ProjectCustomFieldType), DefaultNone),
    Fld("value", "value", TOptional(YouTrackDate), DefaultNone)>>

PeriodIssueCustomField ==
  <<Fld("type", "$type", TLiteral(<<"PeriodIssueCustomField">>), Default("PeriodIssueCustomField")),
    Fld("id", "id", TOptional(TStr), DefaultNone),
    Fld("name", "name", TOptional(TStr), DefaultNone),
    Fld("value", "value", TOptional(TCls("PeriodValue")), DefaultNone)>>

MultiBuildIssueCustomField ==
  <<Fld("type", "$type", TLiteral(<<"MultiBuildIssueCustomField">>), Default("MultiBuildIssueCustomField")),
    Fld("id", "id", TOptional(TStr), DefaultNone),
    Fld("name", "name", TOptional(TStr), DefaultNone),
    Fld("value", "value", TSequence(TCls("BuildBundleElement")), Required)>>

MultiEnumIssueCustomField ==
  <<Fld("type", "$type", TLiteral(<<"MultiEnumIssueCustomField">>), Default("MultiEnumIssueCustomField")),
    Fld("id", "id", TOptional(TStr), DefaultNone),
    Fld("name", "name", TOptional(TStr), DefaultNone),
    Fld("value", "value", TSequence(TCls("EnumBundleElement")), Required)>>

MultiGroupIssueCustomField ==
  <<Fld("type", "$type", TLiteral(<<"MultiGroupIssueCustomField">>), Default("MultiGroupIssueCustomField")),
    Fld("id", "id", TOptional(TStr), DefaultNone),
    Fld("name", "name", TOptional(TStr), DefaultNone),
    Fld("value", "value", TSequence(TCls("UserGroup")), Required)>>

MultiOwnedIssueCustomField ==
  <<Fld("type", "$type", TLiteral(<<"MultiOwnedIssueCustomField">>), Default("MultiOwnedIssueCustomField")),
    Fld("id", "id", TOptional(TStr), DefaultNone),
    Fld("name", "name", TOptional(TStr), DefaultNone),
    Fld("value", "value", TSequence(TCls("OwnedBundleElement")), Required)>>

MultiUserIssueCustomField ==
  <<Fld("type", "$type", TLiteral(<<"MultiUserIssueCustomField">>), Default("MultiUserIssueCustomField")),
    Fld("id", "id", TOptional(TStr), DefaultNone),
    Fld("name", "name", TOptional(TStr), DefaultNone),
    Fld("value", "value", TSequence(TCls("User")), Required)>>

MultiVersionIssueCustomField ==
  <<Fld("type", "$type", TLiteral(<<"MultiVersionIssueCustomField">>), Default("MultiVersionIssueCustomField")),
    Fld("id", "id", TOptional(TStr), DefaultNone),
    Fld("name", "name", TOptional(TStr), DefaultNone),
    Fld("value", "value", TSequence(TCls("VersionBundleElement")), Required)>>

SingleBuildIssueCustomField ==
  <<Fld("type", "$type", TLiteral(<<"SingleBuildIssueCustomField">>), Default("SingleBuildIssueCustomField")),
    Fld("id", "id", TOptional(TStr), DefaultNone),
    Fld("name", "name", TOptional(TStr), DefaultNone),
    Fld("value", "value", TOptional(TCls("BuildBundleElement")), DefaultNone)>>

SingleEnumIssueCustomField ==
  <<Fld("type", "$type", TLiteral(<<"SingleEnumIssueCustomField">>), Default("SingleEnumIssueCustomField")),
    Fld("id", "id", TOptional(TStr), DefaultNone),
    Fld("name", "name", TOptional(TStr), DefaultNone),
    Fld("value", "value", TOptional(TCls("EnumBundleElement")), DefaultNone)>>

SingleGroupIssueCustomField ==
  <<Fld("type", "$type", TLiteral(<<"SingleGroupIssueCustomField">>), Default("SingleGroupIssueCustomField")),
    Fld("id", "id", TOptional(TStr), DefaultNone),
    Fld("name", "name", TOptional(TStr), DefaultNone),
    Fld("value", "value", TOptional(TCls("UserGroup")), DefaultNone)>>

SingleOwnedIssueCustomField ==
  <<Fld("type", "$type", TLiteral(<<"SingleOwnedIssueCustomField">>), Default("SingleOwnedIssueCustomField")),
    Fld("id", "id", TOptional(TStr), DefaultNone),
    Fld("name", "name", TOptional(TStr), DefaultNone),
    Fld("value", "value", TOptional(TCls("OwnedBundleElement")), DefaultNone)>>

SingleUserIssueCustomField ==
  <<Fld("type", "$type", TLiteral(<<"SingleUserIssueCustomField">>), Default("SingleUserIssueCustomField")),
    Fld("id", "id", TOptional(TStr), DefaultNone),
    Fld("name", "name", TOptional(TStr), DefaultNone),
    Fld("value", "value", TOptional(TCls("User")), DefaultNone)>>

SingleVersionIssueCustomField ==
  <<Fld("type", "$type", TLiteral(<<"SingleVersionIssueCustomField">>), Default("SingleVersionIssueCustomField")),
    Fld("id", "id", TOptional(TStr), DefaultNone),
    Fld("name", "name", TOptional(TStr), DefaultNone),
    Fld("value", "value", TOptional(TCls("VersionBundleElement")), DefaultNone)>>

StateIssueCustomField ==
  <<Fld("type", "$type", TLiteral(<<"StateIssueCustomField">>), Default("StateIssueCustomField")),
    Fld("id", "id", TOptional(TStr), DefaultNone),
    Fld("name", "name", TOptional(TStr), DefaultNone),
    Fld("value", "value", TOptional(TCls("StateBundleElement")), DefaultNone)>>

IssueCustomFieldType ==
  TAnnotated(TUnion(<<
    TCls("SingleEnumIssueCustomField"),
    TCls("MultiEnumIssueCustomField"),
    TCls("SingleBuildIssueCustomField"),
    TCls("MultiBuildIssueCustomField"),
    TCls("StateIssueCustomField"),
    TCls("SingleVersionIssueCustomField"),
    TCls("MultiVersionIssueCustomField"),
    TCls("SingleOwnedIssueCustomField"),
    TCls("MultiOwnedIssueCustomField"),
    TCls("SingleUserIssueCustomField"),
    TCls("MultiUserIssueCustomField"),
    TCls("SingleGroupIssueCustomField"),
    TCls("MultiGroupIssueCustomField"),
    TCls("SimpleIssueCustomField"),
    TCls("DateIssueCustomField"),
    TCls("PeriodIssueCustomField"),
    TCls("TextIssueCustomField")>>))

Project ==
  <<Fld("type", "$type", TLiteral(<<"Project">>), Default("Project")),
    Fld("id", "id", TOptional(TStr), DefaultNone),
    Fld("name", "name", TOptional(TStr), DefaultNone),
    Fld("short_name", "shortName", TOptional(TStr), DefaultNone)>>

Tag ==
  <<Fld("type", "$type", TLiteral(<<"Tag">>), Default("Tag")),
    Fld("id", "id", TOptional(TStr), DefaultNone),
    Fld("name", "name", TOptional(TStr), DefaultNone)>>

Issue ==
  <<Fld("type", "$type", TLiteral(<<"Issue">>), Default("Issue")),
    Fld("id", "id", TOptional(TStr), DefaultNone),
    Fld("id_readable", "idReadable", TOptional(TStr), DefaultNone),
    Fld("created", "created", TOptional(TAwareDatetime), DefaultNone),
    Fld("updated", "updated", TOptional(TAwareDatetime), DefaultNone),
    Fld("resolved", "resolved", TOptional(TAwareDatetime), DefaultNone),
    Fld("project", "project", TOptional(TCls("Project")), DefaultNone),
    Fld("reporter", "reporter", TOptional(TCls("User")), DefaultNone),
    Fld("updater", "updater", TOptional(TCls("User")), DefaultNone),
    Fld("summary", "summary", TOptional(TStr), DefaultNone),
    Fld("description", "description", TOptional(TStr), DefaultNone),
    Fld("wikified_description", "wikifiedDescription", TOptional(TStr), DefaultNone),
    Fld("comments_count", "commentsCount", TOptional(TInt), DefaultNone),
    Fld("tags", "tags", TOptional(TSequence(TCls("Tag"))), DefaultNone),
    Fld("custom_fields", "customFields", TOptional(TSequence(IssueCustomFieldType)), DefaultNone)>>

IssueAttachment ==
  <<Fld("type", "$type", TLiteral(<<"IssueAttachment">>), Default("IssueAttachment")),
    Fld("id", "id", TOptional(TStr), DefaultNone),
    Fld("name", "name", TOptional(TStr), DefaultNone),
    Fld("author", "author", TOptional(TCls("User")), DefaultNone),
    Fld("created", "created", TOptional(TAwareDatetime), DefaultNone),
    Fld("updated", "updated", TOptional(TAwareDatetime), DefaultNone),
    Fld("mime_type", "mimeType", TOptional(TStr), DefaultNone),
    Fld("url", "url", TOptional(TStr), DefaultNone)>>

IssueComment ==
  <<Fld("type", "$type", TLiteral(<<"IssueComment">>), Default("IssueComment")),
    Fld("id", "id", TOptional(TStr), DefaultNone),
    Fld("text", "text", TOptional(TStr), DefaultNone),
    Fld("text_preview", "textPreview", TOptional(TStr), DefaultNone),
    Fld("created", "created", TOptional(TAwareDatetime), DefaultNone),
    Fld("updated", "updated", TOptional(TAwareDatetime), DefaultNone),
    Fld("author", "author", TOptional(TCls("User")), DefaultNone),
    Fld("attachments", "attachments", TOptional(TSequence(TCls("IssueAttachment"))), DefaultNone),
    Fld("deleted", "deleted", TOptional(TBool), DefaultNone)>>

IssueLinkType ==
  <<Fld("type", "$type", TLiteral(<<"IssueLinkType">>), Default("IssueLinkType")),
    Fld("id", "id", TOptional(TStr), DefaultNone),
    Fld("name", "name", TOptional(TStr), DefaultNone),
    Fld("localized_name", "localizedName", TOptional(TStr), DefaultNone),
    Fld("source_to_target", "sourceToTarget", TOptional(TStr), DefaultNone),
    Fld("localized_source_to_target", "localizedSourceToTarget", TOptional(TStr), DefaultNone),
    Fld("target_to_source", "targetToSource", TOptional(TStr), DefaultNone),
    Fld("localized_target_to_source", "localizedTargetToSource", TOptional(TStr), DefaultNone),
    Fld("directed", "directed", TOptional(TBool), DefaultNone),
    Fld("aggregation", "aggregation", TOptional(TBool), DefaultNone),
    Fld("read_only", "readOnly", TOptional(TBool), DefaultNone)>>

IssueLink ==
  <<Fld("id", "id", TOptional(TStr), DefaultNone),
    Fld("direction", "direction", TOptional(TLiteral(<<"OUTWARD", "INWARD", "BOTH">>)), DefaultNone),
    Fld("link_type", "linkType", TOptional(TCls("IssueLinkType")), DefaultNone),
    Fld("issues", "issues", TOptional(TSequence(TCls("Issue"))), DefaultNone),
    Fld("trimmed_issues", "trimmedIssues", TOptional(TSequence(TCls("Issue"))), DefaultNone)>>

WorkItemType ==
  <<Fld("type", "$type", TLiteral(<<"WorkItemType">>), Default("WorkItemType")),
    Fld("id", "id", TOptional(TStr), DefaultNone),
    Fld("name", "name", TOptional(TStr), DefaultNone)>>

IssueWorkItem ==
  <<Fld("type", "$type", TLiteral(<<"IssueWorkItem">>), Default("IssueWorkItem")),
    Fld("id", "id", TOptional(TStr), DefaultNone),
    Fld("author", "author", TOptional(TCls("User")), DefaultNone),
    Fld("creator", "creator", TOptional(TCls("User")), DefaultNone),
    Fld("text", "text", TOptional(TStr), DefaultNone),
    Fld("text_preview", "textPreview", TOptional(TStr), DefaultNone),
    Fld("work_item_type", "type", TOptional(TCls("WorkItemType")), DefaultNone),
    Fld("created", "created", TOptional(TAwareDatetime), DefaultNone),
    Fld("updated", "updated", TOptional(TAwareDatetime), DefaultNone),
    Fld("duration", "duration", TOptional(TCls("DurationValue")), DefaultNone),
    Fld("date", "date", TOptional(TAwareDatetime), DefaultNone)>>

AgileRef ==
  <<Fld("type", "$type", TLiteral(<<"Agile">>), Default("Agile")),
    Fld("id", "id", TOptional(TStr), DefaultNone),
    Fld("name", "name", TOptional(TStr), DefaultNone)>>

SprintRef ==
  <<Fld("type", "$type", TLiteral(<<"Sprint">>), Default("Sprint")),
    Fld("id", "id", TOptional(TStr), DefaultNone),
    Fld("name", "name", TOptional(TStr), DefaultNone)>>

Agile ==
  <<Fld("type", "$type", TLiteral(<<"Agile">>), Default("Agile")),
    Fld("id", "id", TOptional(TStr), DefaultNone),
    Fld("name", "name", TOptional(TStr), DefaultNone),
    Fld("owner", "owner", TOptional(TCls("User")), DefaultNone),
    Fld("visible_for", "visibleFor", TOptional(TCls("UserGroup")), DefaultNone),
    Fld("projects", "projects", TOptional(TSequence(TCls("Project"))), DefaultNone),
    Fld("sprints", "sprints", TOptional(TSequence(TCls("SprintRef"))), DefaultNone),
    Fld("current_sprint", "currentSprint", TOptional(TCls("SprintRef")), DefaultNone)>>

Sprint ==
  <<Fld("type", "$type", TLiteral(<<"Sprint">>), Default("Sprint")),
    Fld("id", "id", TOptional(TStr), DefaultNone),
    Fld("name", "name", TOptional(TStr), DefaultNone),
    Fld("agile", "agile", TOptional(TCls("AgileRef")), DefaultNone),
    Fld("goal", "goal", TOptional(TStr), DefaultNone),
    Fld("start", "start", TOptional(TAwareDatetime), DefaultNone),
    Fld("finish", "finish", TOptional(TAwareDatetime), DefaultNone),
    Fld("archived", "archived", TOptional(TBool), DefaultNone),
    Fld("is_default", "isDefault", TOptional(TBool), DefaultNone),
    Fld("issues", "issues", TOptional(TSequence(TCls("Issue"))), DefaultNone),
    Fld("unresolved_issues_count", "unresolvedIssuesCount", TOptional(TInt), DefaultNone),
    Fld("previous_sprint", "previousSprint", TOptional(TCls("SprintRef")), DefaultNone)>>

Models ==
  {"User",
   "TextFieldValue",
   "PeriodValue",
   "DurationValue",
   "BuildBundleElement",
   "VersionBundleElement",
   "OwnedBundleElement",
   "EnumBundleElement",
   "StateBundleElement",
   "UserGroup",
   "FieldType",
   "CustomField",
   "ProjectCustomField",
   "GroupProjectCustomField",
   "BundleProjectCustomField",
   "BuildProjectCustomField",
   "EnumProjectCustomField",
   "OwnedProjectCustomField",
   "StateProjectCustomField",
   "UserProjectCustomField",
   "VersionProjectCustomField",
   "SimpleProjectCustomField",
   "TextProjectCustomField",
   "PeriodProjectCustomField",
   "IssueCustomField",
   "TextIssueCustomField",
   "SimpleIssueCustomField",
   "DateIssueCustomField",
   "PeriodIssueCustomField",
   "MultiBuildIssueCustomField",
   "MultiEnumIssueCustomField",
   "MultiGroupIssueCustomField",
   "MultiOwnedIssueCustomField",
   "MultiUserIssueCustomField",
   "MultiVersionIssueCustomField",
   "SingleBuildIssueCustomField",
   "SingleEnumIssueCustomField",
   "SingleGroupIssueCustomField",
   "SingleOwnedIssueCustomField",
   "SingleUserIssueCustomField",
   "SingleVersionIssueCustomField",
   "StateIssueCustomField",
   "Project",
   "Tag",
   "Issue",
   "IssueAttachment",
   "IssueComment",
   "IssueLinkType",
   "IssueLink",
   "WorkItemType",
   "IssueWorkItem",
   "AgileRef",
   "SprintRef",
   "Agile",
   "Sprint"}

-----------------------------------------------------------------------------
(* Types that are given to the projection engine besides the entities:    *)
(* the models of tests/test_helpers.py, the two variants of the            *)
(* union-merge example (A{x, y(a,b)} | B{y(c), z}), an entity without      *)
(* fields, and entities whose fields refer back to an entity on the path.  *)

SimpleModel ==
  <<Fld("type", "$type", TLiteral(<<"SimpleModel">>), Default("SimpleModel")),
    Fld("id", "id", TOptional(TInt), DefaultNone),
    Fld("short_name", "shortName", TOptional(TStr), DefaultNone)>>

NestedModel ==
  <<Fld("type", "$type", TLiteral(<<"NestedModel">>), Default("NestedModel")),
    Fld("value", "value", TOptional(TCls("SimpleModel")), DefaultNone)>>

NestedUnionModel ==
  <<Fld("type", "$type", TLiteral(<<"NestedUnionModel">>), Default("NestedUnionModel")),
    Fld("items", "items",
        TOptional(TSequence(TUnion(<<TCls("NestedModel"), TCls("SimpleModel"), TInt>>))),
        DefaultNone),
    Fld("entry", "entry",
        TUnion(<<TCls("NestedModel"), TCls("SimpleModel"), TInt, TNone>>),
        DefaultNone)>>

FixtureModels ==
  {"SimpleModel", "NestedModel", "NestedUnionModel",
   "A", "B", "YofA", "YofB", "EmptyModel", "TreeNode", "Forest", "Ping", "Pong"}

FixtureFields(c) ==
  CASE c = "A" -> <<Fld("x", "x", TOptional(TStr), DefaultNone),
                    Fld("y", "y", TOptional(TCls("YofA")), DefaultNone)>>
    [] c = "B" -> <<Fld("y", "y", TOptional(TCls("YofB")), DefaultNone),
                    Fld("z", "z", TOptional(TStr), DefaultNone)>>
    [] c = "YofA" -> <<Fld("a", "a", TOptional(TStr), DefaultNone),
                       Fld("b", "b", TOptional(TStr), DefaultNone)>>
    [] c = "YofB" -> <<Fld("c", "c", TOptional(TStr), DefaultNone)>>
    [] c = "EmptyModel" -> <<>>
    \* TreeNode refers to itself; Forest reaches that cycle from outside
    [] c = "TreeNode" -> <<Fld("id", "id", TOptional(TStr), DefaultNone),
                           Fld("children", "children", TSequence(TCls("TreeNode")), Required)>>
    [] c = "Forest" -> <<Fld("name", "name", TOptional(TStr), DefaultNone),
                         Fld("roots", "roots", TSequence(TCls("TreeNode")), Required)>>
    \* Ping and Pong refer to each other
    [] c = "Ping" -> <<Fld("id", "id", TOptional(TStr), DefaultNone),
                       Fld("pong", "pong", TOptional(TCls("Pong")), DefaultNone)>>
    [] c = "Pong" -> <<Fld("ping", "ping", TOptional(TCls("Ping")), DefaultNone)>>
    [] c = "SimpleModel" -> SimpleModel
    [] c = "NestedModel" -> NestedModel
    [] c = "NestedUnionModel" -> NestedUnionModel

\* model_fields of class c
ModelFields(c) ==
  IF c \in FixtureModels THEN FixtureFields(c)
  ELSE CASE c = "User" -> User
         [] c = "TextFieldValue" -> TextFieldValue
         [] c = "PeriodValue" -> PeriodValue
         [] c = "DurationValue" -> DurationValue
         [] c = "BuildBundleElement" -> BuildBundleElement
         [] c = "VersionBundleElement" -> VersionBundleElement
         [] c = "OwnedBundleElement" -> OwnedBundleElement
         [] c = "EnumBundleElement" -> EnumBundleElement
         [] c = "StateBundleElement" -> StateBundleElement
         [] c = "UserGroup" -> UserGroup
         [] c = "FieldType" -> FieldType
         [] c = "CustomField" -> CustomField
         [] c = "ProjectCustomField" -> ProjectCustomField
         [] c = "GroupProjectCustomField" -> GroupProjectCustomField
         [] c = "BundleProjectCustomField" -> BundleProjectCustomField
         [] c = "BuildProjectCustomField" -> BuildProjectCustomField
         [] c = "EnumProjectCustomField" -> EnumProjectCustomField
         [] c = "OwnedProjectCustomField" -> OwnedProjectCustomField
         [] c = "StateProjectCustomField" -> StateProjectCustomField
         [] c = "UserProjectCustomField" -> UserProjectCustomField
         [] c = "VersionProjectCustomField" -> VersionProjectCustomField
         [] c = "SimpleProjectCustomField" -> SimpleProjectCustomField
         [] c = "TextProjectCustomField" -> TextProjectCustomField
         [] c = "PeriodProjectCustomField" -> PeriodProjectCustomField
         [] c = "IssueCustomField" -> IssueCustomField
         [] c = "TextIssueCustomField" -> TextIssueCustomField
         [] c = "SimpleIssueCustomField" -> SimpleIssueCustomField
         [] c = "DateIssueCustomField" -> DateIssueCustomField
         [] c = "PeriodIssueCustomField" -> PeriodIssueCustomField
         [] c = "MultiBuildIssueCustomField" -> MultiBuildIssueCustomField
         [] c = "MultiEnumIssueCustomField" -> MultiEnumIssueCustomField
         [] c = "MultiGroupIssueCustomField" -> MultiGroupIssueCustomField
         [] c = "MultiOwnedIssueCustomField" -> MultiOwnedIssueCustomField
         [] c = "MultiUserIssueCustomField" -> MultiUserIssueCustomField
         [] c = "MultiVersionIssueCustomField" -> MultiVersionIssueCustomField
         [] c = "SingleBuildIssueCustomField" -> SingleBuildIssueCustomField
         [] c = "SingleEnumIssueCustomField" -> SingleEnumIssueCustomField
         [] c = "SingleGroupIssueCustomField" -> SingleGroupIssueCustomField
         [] c = "SingleOwnedIssueCustomField" -> SingleOwnedIssueCustomField
         [] c = "SingleUserIssueCustomField" -> SingleUserIssueCustomField
         [] c = "SingleVersionIssueCustomField" -> SingleVersionIssueCustomField
         [] c = "StateIssueCustomField" -> StateIssueCustomField
         [] c = "Project" -> Project
         [] c = "Tag" -> Tag
         [] c = "Issue" -> Issue
         [] c = "IssueAttachment" -> IssueAttachment
         [] c = "IssueComment" -> IssueComment
         [] c = "IssueLinkType" -> IssueLinkType
         [] c = "IssueLink" -> IssueLink
         [] c = "WorkItemType" -> WorkItemType
         [] c = "IssueWorkItem" -> IssueWorkItem
         [] c = "AgileRef" -> AgileRef
         [] c = "SprintRef" -> SprintRef
         [] c = "Agile" -> Agile
         [] c = "Sprint" -> Sprint

AllModels == Models \cup FixtureModels

-----------------------------------------------------------------------------
(* pydantic: BaseModel.model_json_schema(ref_template="{model}")           *)

RECURSIVE TypeJsonSchema(_)
\* The JSON schema of an annotation: a model and a named type alias are
\* referred to by "$ref", a sequence is an array of its item schema, a
\* union is anyOf its members' schemas (oneOf when discriminated).
TypeJsonSchema(t) ==
    CASE t.k = "class" -> PyDict(<< <<"$ref", PyStr(t.n)>> >>)
      [] t.k = "TypeAliasType" -> PyDict(<< <<"$ref", PyStr(t.n)>> >>)
      [] t.k = "Sequence" ->
            PyDict(<< <<"items", TypeJsonSchema(t.a[1])>>, <<"type", PyStr("array")>> >>)
      [] t.k = "Union" ->
            PyDict(<< <<"anyOf", PyList([i \in 1..Len(t.a) |-> TypeJsonSchema(t.a[i])])>> >>)
      [] t.k = "Annotated" /\ t.n = "discriminator" ->
            PyDict(<< <<"discriminator", PyStr("$type")>>,
                      <<"oneOf", PyList([i \in 1..Len(t.a[1].a) |->
                                            TypeJsonSchema(t.a[1].a[i])])>> >>)
      [] t.k = "Annotated" /\ t.n # "discriminator" -> TypeJsonSchema(t.a[1])
      [] t.k = "Literal" -> PyDict(<< <<"const", PyStr(t.v[1])>>, <<"type", PyStr("string")>> >>)
      [] t.k = "prim" -> PyDict(<< <<"type", PyStr(t.n)>> >>)

\* The classes an annotation refers to
RECURSIVE RefsOfType(_)
RefsOfType(t) ==
    IF t.k = "class" THEN {t.n}
    ELSE UNION {RefsOfType(t.a[i]) : i \in 1..Len(t.a)}

RefsOfModel(c) ==
    UNION {RefsOfType(ModelFields(c)[i].ann) : i \in 1..Len(ModelFields(c))}

RECURSIVE RefClosure(_)
RefClosure(S) ==
    LET N == S \cup UNION {RefsOfModel(c) : c \in S}
    IN  IF N = S THEN S ELSE RefClosure(N)

\* c is referred to from its own schema
SelfReferenced(c) == c \in RefClosure(RefsOfModel(c))

\* definitions[ref]: the "$defs" entry of a model (its properties by wire
\* key, in field order) or of a named type alias (no properties)
Definition(ref) ==
    IF ref \in AllModels
    THEN PyDict(<< <<"properties",
                     PyDict([i \in 1..Len(ModelFields(ref)) |->
                               <<ModelFields(ref)[i].alias,
                                 TypeJsonSchema(ModelFields(ref)[i].ann)>>])>>,
                   <<"title", PyStr(ref)>>,
                   <<"type", PyStr("object")>> >>)
    ELSE PyDict(<< <<"type", PyStr("string")>> >>)

\* The names a schema refers to: the models and the named type aliases
SchemaRefs == AllModels \cup {"YouTrackDate", "YouTrackDateTime"}

\* definitions = model_schema.get("$defs", {}), helpers.py:64
Definitions == [ref \in SchemaRefs |-> Definition(ref)]

\* m.model_json_schema(): the model's own definition, unless the model is
\* referred to from inside the schema: then the top level is a "$ref" to
\* its "$defs" entry.
ModelJsonSchema(c) ==
    IF SelfReferenced(c) THEN PyDict(<< <<"$ref", PyStr(c)>> >>)
    ELSE Definition(c)

-----------------------------------------------------------------------------
(* helpers.model_to_field_names *)

RECURSIVE SchemaToFields(_, _)
RECURSIVE TypeToFields(_, _)

\* "$ref" in field_type
IsRef(field_type) == HasKey(field_type, "$ref")
\* field_type.get("type") == "array"
IsArray(field_type) ==
    HasKey(field_type, "type") /\ Get(field_type, "type") = PyStr("array")

\* sub_types that knows anyOf and allOf only, not the oneOf of a
\* discriminated union
SubTypesNoOneOf(field_type) ==
    GetOr(field_type, "anyOf", GetOr(field_type, "allOf", PyNone))

\* sub_types := field_type.get("anyOf", field_type.get("allOf",
\*                                   field_type.get("oneOf")))
SubTypes(field_type) ==
    GetOr(field_type, "anyOf",
          GetOr(field_type, "allOf", GetOr(field_type, "oneOf", PyNone)))

\* bool(sub_types): a list that is not empty
Truthy(sub_types) == sub_types.k = "list" /\ Len(sub_types.v) > 0

\* type_to_fields(field_type), depth schema_to_fields frames down
TypeToFields(field_type, depth) ==
    CASE IsRef(field_type) ->
            SchemaToFields(Definitions[Get(field_type, "$ref").v], depth + 1)
      [] ~IsRef(field_type) /\ IsArray(field_type) ->
            TypeToFields(Get(field_type, "items"), depth)
      [] ~IsRef(field_type) /\ ~IsArray(field_type) /\ Truthy(SubTypes(field_type)) ->
            DeepUpdate(EmptyDict,
                       [i \in 1..Len(SubTypes(field_type).v) |->
                           TypeToFields(SubTypes(field_type).v[i], depth)])
      [] OTHER -> EmptyDict

\* {name: value for ...}: the dict of the names and values, unless
\* computing a value raised
DictComprehension(names, values) ==
    IF \E i \in DOMAIN values : IsRaise(values[i]) THEN FirstRaise(values)
    ELSE PyDict([i \in DOMAIN names |-> <<names[i], values[i]>>])

\* schema_to_fields(schema)
SchemaToFields(schema, depth) ==
    CASE depth > RecursionLimit -> Raise("RecursionError")
      [] depth <= RecursionLimit /\ ~HasKey(schema, "properties") -> EmptyDict
      [] OTHER ->
            DictComprehension(
                Keys(Get(schema, "properties")),
                [i \in 1..Len(Get(schema, "properties").v) |->
                    TypeToFields(Get(schema, "properties").v[i][2], depth)])

\* model_to_fields(m): m.model_json_schema exists on a model class only
ModelToFields(m) ==
    IF m.k = "class" /\ m.n \in AllModels
    THEN SchemaToFields(ModelJsonSchema(m.n), 1)
    ELSE Raise("AttributeError")

RECURSIVE FieldsToCsv(_)
RECURSIVE JoinFrom(_, _, _)
\* ",".join(parts[lo..hi])
JoinFrom(parts, lo, hi) ==
    IF lo > hi THEN ""
    ELSE IF lo = hi THEN parts[lo]
    ELSE JoinFrom(parts, lo, (lo + hi) \div 2) \o ","
            \o JoinFrom(parts, (lo + hi) \div 2 + 1, hi)

\* fields_to_csv(fields)
FieldsToCsv(fields) ==
    LET parts == [i \in 1..Len(fields.v) |->
                    LET field_value == FieldsToCsv(fields.v[i][2])
                    IN  IF field_value # ""
                        THEN fields.v[i][1] \o "(" \o field_value \o ")"
                        ELSE fields.v[i][1]]
    IN  JoinFrom(parts, 1, Len(parts))

\* typing.get_origin(model) is Annotated
OriginIsAnnotated(model) == model.k = "Annotated"

\* typing.get_args(model): the parameters of a subscripted type, () for a
\* plain class; those of a Literal are its values, which are not types
GetArgs(model) ==
    CASE model.k \in {"Union", "Sequence", "Annotated"} -> model.a
      [] model.k = "Literal" -> [i \in 1..Len(model.v) |-> TPrim("str value")]
      [] OTHER -> <<>>

\* fields_dict of model_to_field_names(model), helpers.py:90-97
FieldsDict(model) ==
    LET unwrapped == IF OriginIsAnnotated(model) THEN GetArgs(model)[1] ELSE model
        models == IF Len(GetArgs(unwrapped)) > 0 THEN GetArgs(unwrapped)
                  ELSE <<unwrapped>>
    IN  DeepUpdate(EmptyDict, [i \in 1..Len(models) |-> ModelToFields(models[i])])

\* fields_to_csv(fields_dict) or None, helpers.py:99
SelectorOf(fields_dict) ==
    IF IsRaise(fields_dict) THEN fields_dict
    ELSE LET csv == FieldsToCsv(fields_dict)
         IN  IF csv # "" THEN PyStr(csv) ELSE PyNone

\* model_to_field_names(model): the selector, None for an empty one
ModelToFieldNames(model) == SelectorOf(FieldsDict(model))

-----------------------------------------------------------------------------
(* Values of the codec.  A datetime is the instant <<seconds since the     *)
(* epoch, microsecond>>: entities hold timezone-aware datetimes, and two   *)
(* aware datetimes are equal when their instants are.  A date is its day   *)
(* number since the epoch.  An entity is its class, its __dict__ (the      *)
(* <<attribute, value>> pairs in declaration order) and the set of fields  *)
(* that were given to the constructor.                                     *)

PyDatetime(seconds, microsecond) == [k |-> "datetime", v |-> <<seconds, microsecond>>]
PyDate(days) == [k |-> "date", v |-> days]
Instance(cls, dict, fields_set) ==
    [k |-> "model", v |-> [cls |-> cls, dict |-> dict, fields_set |-> fields_set]]
\* obj.<name>
Attr(obj, name) ==
    obj.v.dict[CHOOSE i \in DOMAIN obj.v.dict : obj.v.dict[i][1] = name][2]

ValidationError == Raise("ValidationError")
\* An exception pydantic does not turn into a ValidationError
IsCrash(r) == IsRaise(r) /\ r.v # "ValidationError"
\* What a step that validated the parts rs yields: the exception that left
\* it, the ValidationError collecting the parts' errors, or the value built
Collect(rs, value) ==
    CASE \E i \in DOMAIN rs : IsCrash(rs[i]) ->
            rs[CHOOSE i \in DOMAIN rs :
                  IsCrash(rs[i]) /\ \A j \in 1..(i - 1) : ~IsCrash(rs[j])]
      [] (\A i \in DOMAIN rs : ~IsCrash(rs[i])) /\ AnyRaise(rs) -> ValidationError
      [] OTHER -> value

-----------------------------------------------------------------------------
(* helpers.obj_to_dict                                                     *)

RECURSIVE ModelDump(_, _)
\* A dump that renders a sequence as a list when it leaves out the None
\* fields and keeps the entity's container when it leaves out the unset ones
ModelDumpListIfNone(obj, exclude) ==
    CASE obj.k = "model" ->
            LET fields == ModelFields(obj.v.cls)
                Kept(i) == IF exclude = "exclude_unset"
                           THEN fields[i].name \in obj.v.fields_set
                           ELSE obj.v.dict[i][2].k # "NoneType"
                kept == SelectSeq([i \in DOMAIN fields |-> i], Kept)
            IN  PyDict([j \in DOMAIN kept |->
                          <<fields[kept[j]].alias,
                            ModelDump(obj.v.dict[kept[j]][2], exclude)>>])
      [] obj.k = "list" -> PyList([i \in DOMAIN obj.v |-> ModelDump(obj.v[i], exclude)])
      [] obj.k = "tuple" /\ exclude = "exclude_none" ->
            PyList([i \in DOMAIN obj.v |-> ModelDump(obj.v[i], exclude)])
      [] obj.k = "tuple" /\ exclude # "exclude_none" ->
            PyTuple([i \in DOMAIN obj.v |-> ModelDump(obj.v[i], exclude)])
      [] OTHER -> obj
\* obj.model_dump(by_alias=True, <exclude>=True), exclude being
\* "exclude_unset" or "exclude_none".  It is a Python-mode dump: a datetime
\* and a date stay objects, and a sequence keeps the container the entity
\* holds (pydantic's SEQUENCE_ORIGIN_MAP lists both list and tuple).
ModelDump(obj, exclude) ==
    CASE obj.k = "model" ->
            LET fields == ModelFields(obj.v.cls)
                Kept(i) == IF exclude = "exclude_unset"
                           THEN fields[i].name \in obj.v.fields_set
                           ELSE obj.v.dict[i][2].k # "NoneType"
                kept == SelectSeq([i \in DOMAIN fields |-> i], Kept)
            IN  PyDict([j \in DOMAIN kept |->
                          <<fields[kept[j]].alias,
                            ModelDump(obj.v.dict[kept[j]][2], exclude)>>])
      [] obj.k = "list" -> PyList([i \in DOMAIN obj.v |-> ModelDump(obj.v[i], exclude)])
      [] obj.k = "tuple" -> PyTuple([i \in DOMAIN obj.v |-> ModelDump(obj.v[i], exclude)])
      [] OTHER -> obj

\* obj_to_dict without the exclude_none dump
ObjToDictUnsetOnly(obj) ==
    IF obj.k = "NoneType" THEN obj
    ELSE DeepUpdate(ModelDump(obj, "exclude_unset"), <<>>)

\* obj and deep_update(dump of the set fields, dump of the non-null fields)
ObjToDict(obj) ==
    IF obj.k = "NoneType" THEN obj
    ELSE DeepUpdate(ModelDump(obj, "exclude_unset"), <<ModelDump(obj, "exclude_none")>>)

-----------------------------------------------------------------------------
(* helpers.YouTrackTimestampEncoder, custom_json_dumps, obj_to_json        *)

\* dt.timestamp() taken as the result, without the factor 1000
ToYoutrackTimestampSeconds(dt) == PyInt(dt.v[1])
\* int(dt.timestamp() * 1000): milliseconds since the epoch, the
\* microseconds below a millisecond cut off
ToYoutrackTimestamp(dt) == MsInt(dt.v[1], dt.v[2] \div 1000)

\* datetime.combine(o, time(hour=12, tzinfo=UTC))
CombineNoon(o) == PyDatetime(o.v * SecondsPerDay + TwelveHours, 0)

\* YouTrackTimestampEncoder.default
EncoderDefault(o) ==
    CASE o.k = "datetime" -> ToYoutrackTimestamp(o)
      [] o.k = "date" -> ToYoutrackTimestamp(CombineNoon(o))
      [] OTHER -> Raise("TypeError")

RECURSIVE CustomJsonDumps(_)
\* json.dumps(obj, cls=YouTrackTimestampEncoder), as the JSON value the
\* text denotes: an object, an array (of a list or a tuple), a string, a
\* number, true/false or null
CustomJsonDumps(obj) ==
    CASE obj.k = "dict" ->
            LET vs == [i \in DOMAIN obj.v |-> CustomJsonDumps(obj.v[i][2])]
            IN  IF AnyRaise(vs) THEN FirstRaise(vs)
                ELSE PyDict([i \in DOMAIN obj.v |-> <<obj.v[i][1], vs[i]>>])
      [] obj.k \in {"list", "tuple"} ->
            LET vs == [i \in DOMAIN obj.v |-> CustomJsonDumps(obj.v[i])]
            IN  IF AnyRaise(vs) THEN FirstRaise(vs) ELSE PyList(vs)
      [] obj.k \in {"NoneType", "str", "int", "bool"} -> obj
      [] obj.k = "float" ->
            \* allow_nan=False
            IF obj.v \in {"nan", "inf", "-inf"} THEN Raise("ValueError") ELSE obj
      [] OTHER -> EncoderDefault(obj)

ObjToJson(obj) == CustomJsonDumps(ObjToDict(obj))

-----------------------------------------------------------------------------
(* types.py: the validators that run before pydantic's own                 *)

\* datetime.fromtimestamp(value // 1000, UTC): the milliseconds dropped
FromTimestampWholeSeconds(value) == PyDatetime(value.v[1], 0)
\* datetime.fromtimestamp(value / 1000, UTC)
FromTimestampMs(value) == PyDatetime(value.v[1], value.v[2] * 1000)

\* YouTrackDate: lambda d: fromtimestamp(d / 1000, UTC) - timedelta(hours=12)
\* if isinstance(d, int) else d
YouTrackDateValidator(d) ==
    IF d.k = "int"
    THEN PyDatetime(FromTimestampMs(d).v[1] - TwelveHours, FromTimestampMs(d).v[2])
    ELSE d

\* project_custom_field.field.field_type.id, or the AttributeError of
\* reading an attribute of None on the way
FieldTypeIdOf(project_custom_field) ==
    CASE Attr(project_custom_field, "field").k = "NoneType" -> Raise("AttributeError")
      [] Attr(project_custom_field, "field").k # "NoneType"
         /\ Attr(Attr(project_custom_field, "field"), "field_type").k = "NoneType" ->
            Raise("AttributeError")
      [] OTHER -> Attr(Attr(Attr(project_custom_field, "field"), "field_type"), "id")

\* A validator that returns every candidate as it is, whatever info.data has
ValidateYoutrackDatetimeAsIs(value, data) == value
\* validate_youtrack_datetime(value, info), data being info.data: the
\* fields of the entity validated so far, by attribute name
ValidateYoutrackDatetime(value, data) ==
    CASE ~HasKey(data, "project_custom_field") -> Raise("RuntimeError")
      [] HasKey(data, "project_custom_field")
         /\ Get(data, "project_custom_field").k = "NoneType" -> value
      [] HasKey(data, "project_custom_field")
         /\ Get(data, "project_custom_field").k # "NoneType"
         /\ IsRaise(FieldTypeIdOf(Get(data, "project_custom_field"))) ->
            FieldTypeIdOf(Get(data, "project_custom_field"))
      [] HasKey(data, "project_custom_field")
         /\ Get(data, "project_custom_field").k # "NoneType"
         /\ ~IsRaise(FieldTypeIdOf(Get(data, "project_custom_field")))
         /\ FieldTypeIdOf(Get(data, "project_custom_field")) = PyStr("date and time")
         /\ value.k # "NoneType" ->
            CASE value.k = "datetime" -> value
              [] value.k \notin {"datetime", "int", "bool"} -> Raise("ValueError")
              \* a bool is an int: True is 1
              [] value.k = "bool" -> FromTimestampMs(PyInt(IF value.v THEN 1 ELSE 0))
              [] OTHER -> FromTimestampMs(value)
      [] OTHER -> value

\* The BeforeValidator of the type alias <name>
BeforeValidator(name, value, data) ==
    IF name = "YouTrackDate" THEN YouTrackDateValidator(value)
    ELSE ValidateYoutrackDatetime(value, data)

-----------------------------------------------------------------------------
(* pydantic validation of a value against an annotation: the constructor   *)
(* of an entity (mode "python") and validate_json (mode "json").  A        *)
(* result is the validated value, ValidationError, or the exception a      *)
(* validator of types.py raised.                                           *)

\* A number read as a datetime: seconds since the epoch, or milliseconds
\* when it is above pydantic's watershed of 2e10
DatetimeFromNumber(n) ==
    IF n.v[1] > 20000000 \/ (n.v[1] = 20000000 /\ n.v[2] > 0)
    THEN FromTimestampMs(n)
    ELSE PyDatetime(n.v[1] * 1000 + n.v[2], 0)

\* A datetime given for a date must be an exact midnight
DateFromDatetime(dt) ==
    IF dt.v[1] % SecondsPerDay = 0 /\ dt.v[2] = 0
    THEN PyDate(dt.v[1] \div SecondsPerDay)
    ELSE ValidationError

ValidatePrim(t, x) ==
    CASE t.n \in {"str", "StrictStr"} -> IF x.k = "str" THEN x ELSE ValidationError
      [] t.n \in {"int", "StrictInt"} -> IF x.k = "int" THEN x ELSE ValidationError
      [] t.n = "bool" -> IF x.k = "bool" THEN x ELSE ValidationError
      [] t.n \in {"float", "StrictFloat"} -> IF x.k = "float" THEN x ELSE ValidationError
      [] t.n = "AwareDatetime" ->
            CASE x.k = "datetime" -> x
              [] x.k = "int" -> DatetimeFromNumber(x)
              [] OTHER -> ValidationError
      [] t.n = "date" ->
            CASE x.k = "date" -> x
              [] x.k = "datetime" -> DateFromDatetime(x)
              [] OTHER -> ValidationError
      [] OTHER -> IF x.k = "NoneType" THEN x ELSE ValidationError

\* The type-name enumerations of the three unions
BundleElementTypeName ==
    {"BuildBundleElement", "VersionBundleElement", "OwnedBundleElement",
     "EnumBundleElement", "StateBundleElement"}
ProjectCustomFieldTypeName ==
    {"GroupProjectCustomField", "BundleProjectCustomField", "BuildProjectCustomField",
     "EnumProjectCustomField", "OwnedProjectCustomField", "StateProjectCustomField",
     "UserProjectCustomField", "VersionProjectCustomField", "SimpleProjectCustomField",
     "TextProjectCustomField", "PeriodProjectCustomField"}
IssueCustomFieldTypeName ==
    {"TextIssueCustomField", "SimpleIssueCustomField", "DateIssueCustomField",
     "PeriodIssueCustomField", "MultiBuildIssueCustomField", "MultiEnumIssueCustomField",
     "MultiGroupIssueCustomField", "MultiOwnedIssueCustomField", "MultiUserIssueCustomField",
     "MultiVersionIssueCustomField", "SingleBuildIssueCustomField",
     "SingleEnumIssueCustomField", "SingleGroupIssueCustomField",
     "SingleOwnedIssueCustomField", "SingleUserIssueCustomField",
     "SingleVersionIssueCustomField", "StateIssueCustomField"}
\* The enumeration a tag is a value of
TypeNameOf(tag) ==
    CASE tag \in BundleElementTypeName -> BundleElementTypeName
      [] tag \in ProjectCustomFieldTypeName -> ProjectCustomFieldTypeName
      [] tag \in IssueCustomFieldTypeName -> IssueCustomFieldTypeName
      [] OTHER -> {tag}

\* The tags of a class whose discriminator is typed by its enumeration as a
\* whole, Literal[<every value>], not by one value of it
TagsOfEnumeration(cls) ==
    UNION {UNION {TypeNameOf(f.ann.v[i]) : i \in DOMAIN f.ann.v} :
              f \in {ModelFields(cls)[i] : i \in
                        {j \in DOMAIN ModelFields(cls) : ModelFields(cls)[j].alias = "$type"}}}
\* The tags an entity class declares: the values of the Literal of its
\* discriminator field
TagsOf(cls) ==
    UNION {{f.ann.v[i] : i \in DOMAIN f.ann.v} :
              f \in {ModelFields(cls)[i] : i \in
                        {j \in DOMAIN ModelFields(cls) : ModelFields(cls)[j].alias = "$type"}}}

\* A choice that does not look at the tag: the first variant
VariantForTagFirst(choices, tag) == choices[1].n

\* A tagged union's choice for a tag: the variant declaring it
VariantForTag(choices, tag) ==
    choices[CHOOSE i \in DOMAIN choices : tag \in TagsOf(choices[i].n)].n

RECURSIVE Validate(_, _, _, _)

\* One field of an entity: the payload's value under the alias or, by
\* populate_by_name, under the attribute name; else the default
FieldValue(field, x, mode, data) ==
    CASE HasKey(x, field.alias) -> Validate(field.ann, Get(x, field.alias), mode, data)
      [] ~HasKey(x, field.alias) /\ HasKey(x, field.name) ->
            Validate(field.ann, Get(x, field.name), mode, data)
      [] ~HasKey(x, field.alias) /\ ~HasKey(x, field.name) /\ field.default.has ->
            field.default.val
      [] OTHER -> ValidationError

\* The entity of class cls, its declared fields being fields, from the
\* mapping x: each field validated in declaration order, every one seeing
\* in info.data the fields before it that validated
ValidateFields(cls, fields, x, mode) ==
    LET Given(i) == HasKey(x, fields[i].alias) \/ HasKey(x, fields[i].name)
        \* info.data for field i: the fields before it that validated
        alone == [i \in DOMAIN fields |-> FieldValue(fields[i], x, mode, EmptyDict)]
        Valid(j) == ~IsRaise(alone[j])
        DataFor(i) ==
            LET before == SelectSeq([j \in 1..(i - 1) |-> j], Valid)
            IN  PyDict([j \in DOMAIN before |->
                          <<fields[before[j]].name, alone[before[j]]>>])
        values == [i \in DOMAIN fields |-> FieldValue(fields[i], x, mode, DataFor(i))]
    IN  Collect(values,
                Instance(cls,
                         [i \in DOMAIN fields |-> <<fields[i].name, values[i]>>],
                         {fields[i].name : i \in {j \in DOMAIN fields : Given(j)}}))

\* cls(**x) / cls.model_validate_json: an entity of class cls from the
\* mapping x; a key that names no field is ignored
ValidateModel(cls, x, mode) ==
    CASE x.k = "model" -> IF mode = "python" /\ x.v.cls = cls THEN x ELSE ValidationError
      [] x.k \notin {"model", "dict"} -> ValidationError
      [] OTHER -> ValidateFields(cls, ModelFields(cls), x, mode)

\* A tagged union given a payload without the tag takes its first variant
ValidateTaggedOrFirst(choices, x, mode) ==
    CASE x.k = "model" ->
            IF mode = "python" /\ \E i \in DOMAIN choices : choices[i].n = x.v.cls
            THEN x ELSE ValidationError
      [] x.k = "dict" /\ ~HasKey(x, "$type") -> ValidateModel(choices[1].n, x, mode)
      [] x.k = "dict" /\ HasKey(x, "$type") /\ Get(x, "$type").k # "str" -> ValidationError
      [] x.k = "dict" /\ HasKey(x, "$type") /\ Get(x, "$type").k = "str"
         /\ ~\E i \in DOMAIN choices : Get(x, "$type").v \in TagsOf(choices[i].n) ->
            ValidationError
      [] x.k = "dict" /\ HasKey(x, "$type") /\ Get(x, "$type").k = "str"
         /\ \E i \in DOMAIN choices : Get(x, "$type").v \in TagsOf(choices[i].n) ->
            ValidateModel(VariantForTag(choices, Get(x, "$type").v), x, mode)
      [] OTHER -> ValidationError

\* Annotated[A | B | ..., Field(discriminator="type")]: the variant is
\* chosen by the payload's "$type" alone
ValidateTagged(choices, x, mode) ==
    CASE x.k = "model" ->
            IF mode = "python" /\ \E i \in DOMAIN choices : choices[i].n = x.v.cls
            THEN x ELSE ValidationError
      [] x.k = "dict" /\ ~HasKey(x, "$type") -> ValidationError
      [] x.k = "dict" /\ HasKey(x, "$type") /\ Get(x, "$type").k # "str" -> ValidationError
      [] x.k = "dict" /\ HasKey(x, "$type") /\ Get(x, "$type").k = "str"
         /\ ~\E i \in DOMAIN choices : Get(x, "$type").v \in TagsOf(choices[i].n) ->
            ValidationError
      [] x.k = "dict" /\ HasKey(x, "$type") /\ Get(x, "$type").k = "str"
         /\ \E i \in DOMAIN choices : Get(x, "$type").v \in TagsOf(choices[i].n) ->
            ValidateModel(VariantForTag(choices, Get(x, "$type").v), x, mode)
      [] OTHER -> ValidationError

\* What pydantic's own validator of a choice is given: the value, or what
\* the BeforeValidator of the choice made of it
CoreInput(choice, x, data) ==
    IF choice.k = "TypeAliasType" THEN BeforeValidator(choice.n, x, data) ELSE x

\* A | B | ... in smart mode: the choices are tried in order; the first
\* that accepts the value as it is wins, else the first that accepts it
ValidateUnion(choices, x, mode, data) ==
    LET rs == [i \in DOMAIN choices |-> Validate(choices[i], x, mode, data)]
        Stops(i) == IsCrash(rs[i])
                    \/ (~IsRaise(rs[i]) /\ rs[i] = CoreInput(choices[i], x, data))
    IN  CASE \E i \in DOMAIN rs : Stops(i) ->
                rs[CHOOSE i \in DOMAIN rs : Stops(i) /\ \A j \in 1..(i - 1) : ~Stops(j)]
          [] (\A i \in DOMAIN rs : ~Stops(i)) /\ \E i \in DOMAIN rs : ~IsRaise(rs[i]) ->
                rs[CHOOSE i \in DOMAIN rs :
                      ~IsRaise(rs[i]) /\ \A j \in 1..(i - 1) : IsRaise(rs[j])]
          [] OTHER -> ValidationError

\* Sequence[T]: the constructor keeps the caller's list or tuple, a JSON
\* array becomes a list
ValidateSequence(item_type, x, mode, data) ==
    CASE x.k = "list" \/ (x.k = "tuple" /\ mode = "python") ->
            LET items == [i \in DOMAIN x.v |-> Validate(item_type, x.v[i], mode, data)]
            IN  Collect(items, [k |-> x.k, v |-> items])
      [] OTHER -> ValidationError

Validate(t, x, mode, data) ==
    CASE t.k = "prim" -> ValidatePrim(t, x)
      [] t.k = "Literal" ->
            IF x.k = "str" /\ \E i \in DOMAIN t.v : t.v[i] = x.v THEN x ELSE ValidationError
      [] t.k = "class" -> ValidateModel(t.n, x, mode)
      [] t.k = "Sequence" -> ValidateSequence(t.a[1], x, mode, data)
      [] t.k = "Annotated" /\ t.n = "discriminator" -> ValidateTagged(t.a[1].a, x, mode)
      [] t.k = "TypeAliasType" ->
            CASE IsRaise(BeforeValidator(t.n, x, data))
                 /\ BeforeValidator(t.n, x, data).v = "ValueError" -> ValidationError
              [] IsRaise(BeforeValidator(t.n, x, data))
                 /\ BeforeValidator(t.n, x, data).v # "ValueError" ->
                    BeforeValidator(t.n, x, data)
              [] OTHER -> Validate(t.a[1].a[1], BeforeValidator(t.n, x, data), mode, data)
      \* Optional[T] is T | None: None is taken as it is
      [] t.k = "Union" /\ x.k = "NoneType" /\ t.a[Len(t.a)] = TNone -> x
      [] t.k = "Union" /\ x.k # "NoneType" /\ t.a[Len(t.a)] = TNone ->
            IF Len(t.a) = 2 THEN Validate(t.a[1], x, mode, data)
            ELSE ValidateUnion(SubSeq(t.a, 1, Len(t.a) - 1), x, mode, data)
      [] t.k = "Union" /\ t.a[Len(t.a)] # TNone -> ValidateUnion(t.a, x, mode, data)
      [] OTHER -> ValidationError

\* The public constructor cls(**kwargs)
Construct(cls, kwargs) == ValidateModel(cls, PyDict(kwargs), "python")

\* TypeAdapter(target).validate_json(payload), cls.model_validate_json
ValidateJson(target, payload) == Validate(target, payload, "json", EmptyDict)

RECURSIVE Comparable(_)
\* BaseModel.__eq__ compares the class and the __dict__ of two entities,
\* not the fields that were set: an entity without its fields_set
Comparable(x) ==
    CASE x.k = "model" ->
            [k |-> "model",
             v |-> [cls |-> x.v.cls,
                    dict |-> [i \in DOMAIN x.v.dict |->
                                <<x.v.dict[i][1], Comparable(x.v.dict[i][2])>>]]]
      [] x.k \in {"list", "tuple"} -> [k |-> x.k, v |-> [i \in DOMAIN x.v |-> Comparable(x.v[i])]]
      [] OTHER -> x
\* a == b
PyEq(a, b) == Comparable(a) = Comparable(b)

-----------------------------------------------------------------------------
(* async_client.py: the request of a call and what becomes of its response. *)
(* A response is its status code and its content: Bytes(<<>>) the empty     *)
(* content, Bytes(<<payload>>) the JSON text of a payload.  The outcome of  *)
(* a call is what it returned or the exception it raised, with the message  *)
(* of the exception as the pieces of its f-string, and whether the content  *)
(* was given to validate_json.                                             *)

Bytes(payloads) == [k |-> "bytes", v |-> payloads]
EmptyContent == Bytes(<<>>)

Returned(value) == [k |-> "return", v |-> value, msg |-> <<>>, decoded |-> FALSE]
Raised(exc, msg) == [k |-> "raise", v |-> exc, msg |-> msg, decoded |-> FALSE]

\* httpx.Response.is_success
IsSuccess(status_code) == 200 <= status_code /\ status_code <= 299

\* _send_request with a raise_for_status() that raises for the client and
\* server errors only
SendRequestErrorsOnly(method, url, status_code, content) ==
    CASE status_code = NOT_FOUND -> Raised("YouTrackNotFound", <<>>)
      [] status_code = UNAUTHORIZED -> Raised("YouTrackUnauthorized", <<>>)
      [] status_code \notin {NOT_FOUND, UNAUTHORIZED} /\ status_code >= 400 ->
            Raised("YouTrackException",
                   <<"Unexpected status code for ", method, " ", url, ": ",
                     ToString(status_code), ".">>)
      [] OTHER -> Returned(IF content = EmptyContent THEN PyNone ELSE content)
\* AsyncClient._send_request, from the response on
SendRequest(method, url, status_code, content) ==
    CASE status_code = NOT_FOUND -> Raised("YouTrackNotFound", <<>>)
      [] status_code = UNAUTHORIZED -> Raised("YouTrackUnauthorized", <<>>)
      [] status_code \notin {NOT_FOUND, UNAUTHORIZED} /\ ~IsSuccess(status_code) ->
            \* response.raise_for_status() raised
            Raised("YouTrackException",
                   <<"Unexpected status code for ", method, " ", url, ": ",
                     ToString(status_code), ".">>)
      [] OTHER ->
            \* if not response.content: return None
            Returned(IF content = EmptyContent THEN PyNone ELSE content)

\* _get_bytes and _post_bytes without the test for None
RequireBytesLenient(method, url, response) == response
\* The part _get_bytes and _post_bytes share: if response is None: raise
RequireBytes(method, url, response) ==
    IF response.k = "return" /\ response.v = PyNone
    THEN Raised("YouTrackException", <<"Unexpected empty response from ", method, " ", url>>)
    ELSE response

GetBytes(url, status_code, content) ==
    RequireBytes("GET", url, SendRequest("GET", url, status_code, content))
PostBytes(url, status_code, content) ==
    RequireBytes("POST", url, SendRequest("POST", url, status_code, content))
ClientGet(url, status_code, content) == SendRequest("GET", url, status_code, content)
ClientPost(url, status_code, content) == SendRequest("POST", url, status_code, content)
ClientDelete(url, status_code, content) == SendRequest("DELETE", url, status_code, content)

\* The outcome of a call that gave the content to validate_json, which
\* returned or raised result
Decoded(result) ==
    [k |-> IF IsRaise(result) THEN "raise" ELSE "return",
     v |-> IF IsRaise(result) THEN result.v ELSE result,
     msg |-> <<>>,
     decoded |-> TRUE]

\* <target>.model_validate_json(response) / TypeAdapter(<target>).validate_json
\* of the bytes a request returned
DecodeResponse(target, response) ==
    IF response.k # "return" THEN response
    ELSE IF response.v.k # "bytes"
    THEN \* validate_json takes str, bytes or bytearray
         Decoded(ValidationError)
    ELSE Decoded(ValidateJson(target, response.v.v[1]))

\* A call that awaits the request and returns nothing
Discard(response) ==
    IF response.k = "return" THEN [response EXCEPT !.v = PyNone] ELSE response

\* The calls that return an entity: name, method, url, type decoded against
EntityCalls ==
    {<<"get_issue", "GET", "https://server/api/issues/DEMO-1?fields=id", TCls("Issue")>>,
     <<"create_issue", "POST", "https://server/api/issues?fields=id", TCls("Issue")>>,
     <<"update_issue", "POST", "https://server/api/issues/DEMO-1?fields=id", TCls("Issue")>>,
     <<"update_issue_custom_field", "POST",
       "https://server/api/issues/DEMO-1/customFields/1?fields=id", IssueCustomFieldType>>,
     <<"create_issue_comment", "POST",
       "https://server/api/issues/DEMO-1/comments?fields=id", TCls("IssueComment")>>,
     <<"update_issue_comment", "POST",
       "https://server/api/issues/DEMO-1/comments/1?fields=id", TCls("IssueComment")>>,
     <<"create_issue_work_item", "POST",
       "https://server/api/issues/DEMO-1/timeTracking/workItems?fields=id",
       TCls("IssueWorkItem")>>,
     <<"get_agile", "GET", "https://server/api/agiles/1?fields=id", TCls("Agile")>>,
     <<"get_sprint", "GET", "https://server/api/agiles/1/sprints/2?fields=id", TCls("Sprint")>>}

\* The calls that return nothing: name, method, url
NothingCalls ==
    {<<"delete_issue", "DELETE", "https://server/api/issues/DEMO-1?">>,
     <<"delete_issue_comment", "DELETE", "https://server/api/issues/DEMO-1/comments/1?">>,
     <<"delete_issue_link", "DELETE", "https://server/api/issues/DEMO-1/links/1/issues/DEMO-2?">>,
     <<"add_issue_tag", "POST", "https://server/api/issues/DEMO-1/tags?">>}

\* The status codes of the responses
StatusCodes == {200, 201, 204, 299, 300, 302, 400, 401, 403, 404, 500, 503}

\* The contents of the responses: none, and the JSON of some payloads
Contents ==
    {EmptyContent,
     Bytes(<<PyDict(<<>>)>>),
     Bytes(<<PyDict(<<<<"id", PyStr("1")>>>>)>>),
     Bytes(<<PyDict(<<<<"$type", PyInt(1)>>>>)>>)}

-----------------------------------------------------------------------------
(* helpers.get_single_value, get_issue_custom_field                        *)

\* The first of the values when there is one, whatever follows it
GetSingleValueFirst(values) ==
    IF Len(values) >= 1 THEN values[1] ELSE Raise("NonSingleValueError")
\* (value,) = values: the one element of values, or NonSingleValueError
GetSingleValue(values) ==
    IF Len(values) = 1 THEN values[1] ELSE Raise("NonSingleValueError")

\* issue.custom_fields if issue.custom_fields else []: None and an empty
\* sequence are falsy
CustomFieldsOf(issue) ==
    IF Attr(issue, "custom_fields").k = "NoneType" THEN <<>>
    ELSE Attr(issue, "custom_fields").v

\* field.name == field_name
FilterFunc(field, field_name) == Attr(field, "name") = field_name

\* tuple(filter(_filter_func, custom_fields))
FilterByName(custom_fields, field_name) ==
    LET Named(field) == FilterFunc(field, field_name)
    IN  SelectSeq(custom_fields, Named)

GetIssueCustomField(issue, field_name) ==
    GetSingleValue(FilterByName(CustomFieldsOf(issue), field_name))

-----------------------------------------------------------------------------
(* base_client.BaseClient._build_url.  A URL is the pieces of its f-string, *)
(* the query being the <<key, value>> pairs urlencode joins with & and =.   *)

\* urllib.parse.quote_plus of the strings that occur: a space becomes +,
\* every other character but letters, digits and _.-~ its %XX
QuotePlus(s) ==
    CASE s = "$skip" -> "%24skip"
      [] s = "$top" -> "%24top"
      [] s = "id,name" -> "id%2Cname"
      [] s = "$type,id" -> "%24type%2Cid"
      [] s = "project: YT" -> "project%3A+YT"
      [] OTHER -> s

\* str(value) of a scalar
Str(value) ==
    CASE value.k = "str" -> value.v
      [] value.k = "int" -> ToString(value.v[1] * 1000 + value.v[2])
      [] value.k = "bool" -> IF value.v THEN "True" ELSE "False"
      [] OTHER -> "None"

\* str(value).lower() if isinstance(value, bool) else value
Lowered(value) ==
    IF value.k = "bool" THEN PyStr(IF value.v THEN "true" ELSE "false") ELSE value

\* A query in which every value is one pair, a sequence as the str() of it
UrlEncodeNoSeq(query) ==
    [i \in DOMAIN query.v |-> <<QuotePlus(query.v[i][1]), QuotePlus(Str(query.v[i][2]))>>]
RECURSIVE UrlEncode(_)
\* urlencode(query, doseq=True): one pair for a scalar, one pair for each
\* element of a sequence
UrlEncode(query) ==
    IF query.v = <<>> THEN <<>>
    ELSE LET key == QuotePlus(Head(query.v)[1])
             value == Head(query.v)[2]
             pairs == IF value.k \in {"list", "tuple"}
                      THEN [i \in DOMAIN value.v |-> <<key, QuotePlus(Str(value.v[i]))>>]
                      ELSE <<<<key, QuotePlus(Str(value))>>>>
         IN  pairs \o UrlEncode(PyDict(Tail(query.v)))

RECURSIVE PutAll(_, _)
\* {**d, **kwargs}
PutAll(d, kwargs) ==
    IF kwargs = <<>> THEN d
    ELSE PutAll(Put(d, Head(kwargs)[1], Head(kwargs)[2]), Tail(kwargs))

\* The dict comprehension of _build_url: the parameters that are not None,
\* a bool as its lowercase string
QueryParams(fields, offset, count, kwargs) ==
    LET all == PutAll(PyDict(<<<<"fields", fields>>, <<"$skip", offset>>,
                                <<"$top", count>>>>), kwargs)
        NotNone(item) == item[2].k # "NoneType"
        kept == SelectSeq(all.v, NotNone)
    IN  PyDict([i \in DOMAIN kept |-> <<kept[i][1], Lowered(kept[i][2])>>])

\* f"{self._base_url}/api{path}?{query}"
BuildUrl(base_url, path, fields, offset, count, kwargs) ==
    <<base_url, "/api", path, "?", UrlEncode(QueryParams(fields, offset, count, kwargs))>>

-----------------------------------------------------------------------------
(* The types the projection engine is called with *)

SimpleOrNested == TUnion(<<TCls("SimpleModel"), TCls("NestedModel")>>)
AOrB == TUnion(<<TCls("A"), TCls("B")>>)
BOrA == TUnion(<<TCls("B"), TCls("A")>>)

\* The entities projected.  Issue is the deepest of them; Sprint and
\* IssueLink, which hold a sequence of issues, nest one level deeper.
ProjectedModels == AllModels \ {"Sprint", "IssueLink"}

\* Entity types and unions of entity types, bare or Annotated
EntityInputs ==
    {TCls(c) : c \in ProjectedModels}
    \cup {BundleElement, ProjectCustomFieldType, IssueCustomFieldType}
    \cup {BundleElement.a[1], ProjectCustomFieldType.a[1], IssueCustomFieldType.a[1]}
    \cup {SimpleOrNested, TAnnotated(SimpleOrNested), AOrB, BOrA, TAnnotated(AOrB),
          TAnnotated(BOrA),
          TUnion(<<TCls("NestedModel"), TCls("SimpleModel")>>),
          TUnion(<<TCls("NestedUnionModel"), TCls("NestedModel")>>),
          TUnion(<<TCls("A"), TCls("B"), TCls("EmptyModel")>>),
          TUnion(<<TCls("SingleEnumIssueCustomField"), TCls("MultiEnumIssueCustomField")>>),
          TUnion(<<TCls("MultiUserIssueCustomField"), TCls("SingleGroupIssueCustomField")>>),
          TUnion(<<TCls("TextIssueCustomField"), TCls("PeriodIssueCustomField"),
                   TCls("DateIssueCustomField")>>),
          TUnion(<<TCls("User"), TCls("UserGroup")>>),
          TUnion(<<TCls("Agile"), TCls("AgileRef")>>),
          TUnion(<<TCls("IssueComment"), TCls("IssueWorkItem")>>),
          TAnnotated(TUnion(<<TCls("Project"), TCls("Tag")>>)),
          TUnion(<<TCls("Forest"), TCls("Tag")>>),
          TUnion(<<TCls("Tag"), TCls("TreeNode")>>)}

\* Everything else
NonEntityInputs ==
    {TInt, TStr, TBool, TFloat, TNone, TDate, TAwareDatetime,
     YouTrackDate, YouTrackDateTime,
     TLiteral(<<"OUTWARD">>), TOptional(TInt), TUnion(<<TInt, TStr>>),
     TOptional(TCls("Project")), TOptional(TCls("EmptyModel")),
     TUnion(<<TCls("Project"), TInt>>), TUnion(<<TInt, TCls("Project")>>),
     TSequence(TCls("Tag")), TSequence(TCls("EmptyModel")), TSequence(TInt),
     TSequence(AOrB), TOptional(TSequence(TCls("Tag"))),
     TBefore(TInt)}

ProjectionInputs == EntityInputs \cup NonEntityInputs

NoCall == [k |-> "nocall", n |-> "", a |-> <<>>, v |-> <<>>]
NoResult == [k |-> "noresult", v |-> <<>>]

-----------------------------------------------------------------------------
(* What the codec is given: the keyword arguments of entity constructors,  *)
(* and JSON payloads                                                       *)

AtMillisecond == PyDatetime(1704067200, 123000)    \* 2024-01-01T00:00:00.123Z
AtMicrosecond == PyDatetime(1704067200, 123456)    \* 2024-01-01T00:00:00.123456Z
OnDay == PyDate(19040)                             \* 2022-02-17

\* Keyword arguments of an entity with an id and a name
NamedKwargs ==
    {<<>>,
     <<<<"name", PyNone>>>>,
     <<<<"id", PyStr("1")>>, <<"name", PyStr("n")>>>>}

\* The containers a caller can give for a Sequence field
Containers(S) ==
    {PyList(<<>>), PyTuple(<<>>)}
    \cup {PyList(<<e>>) : e \in S}
    \cup {PyTuple(<<e>>) : e \in S}
    \cup {PyList(<<d, e>>) : d \in S, e \in S}

Objects(cls, kwargs) == {Construct(cls, kw) : kw \in kwargs}

TagObjects == Objects("Tag", NamedKwargs)
EnumObjects == Objects("EnumBundleElement", NamedKwargs)
UserObjects == Objects("User", {<<>>, <<<<"type", PyStr("Me")>>, <<"login", PyNone>>>>})

\* A project custom field whose field type has the id type_id
ProjectCustomFieldOf(type_id) ==
    Construct("SimpleProjectCustomField",
              <<<<"field",
                  Construct("CustomField",
                            <<<<"field_type",
                                Construct("FieldType", <<<<"id", PyStr(type_id)>>>>)>>>>)>>>>)

SimpleKwargs ==
    {pcf \o value :
        pcf \in {<<>>, <<<<"project_custom_field", PyNone>>>>,
                 <<<<"project_custom_field", ProjectCustomFieldOf("date and time")>>>>,
                 <<<<"projectCustomField", ProjectCustomFieldOf("string")>>>>},
        value \in {<<>>, <<<<"value", PyNone>>>>, <<<<"value", PyStr("text")>>>>,
                   <<<<"value", PyInt(5)>>>>, <<<<"value", AtMillisecond>>>>}}

CustomFieldInputs ==
    {<<"SimpleIssueCustomField", kw>> : kw \in SimpleKwargs}
    \cup {<<"DateIssueCustomField", kw>> :
            kw \in {<<>>, <<<<"value", PyNone>>>>, <<<<"value", OnDay>>>>,
                    <<<<"name", PyStr("Due")>>, <<"value", OnDay>>>>}}
    \cup {<<"SingleEnumIssueCustomField", kw>> :
            kw \in {<<>>, <<<<"value", PyNone>>>>}
                   \cup {<<<<"value", e>>>> : e \in EnumObjects}}
    \cup {<<"MultiEnumIssueCustomField", <<<<"value", c>>>>>> : c \in Containers(EnumObjects)}
    \cup {<<"MultiUserIssueCustomField", <<<<"value", c>>>>>> : c \in Containers(UserObjects)}
    \cup {<<"StateIssueCustomField",
            <<<<"value", Construct("StateBundleElement", <<<<"name", PyStr("Open")>>>>)>>>>>>,
          <<"TextIssueCustomField",
            <<<<"value", Construct("TextFieldValue", <<<<"text", PyNone>>>>)>>>>>>,
          <<"PeriodIssueCustomField",
            <<<<"value", Construct("PeriodValue", <<<<"minutes", PyInt(90)>>>>)>>>>>>}

CustomFieldObjects ==
    {Construct("SimpleIssueCustomField", <<<<"value", PyInt(5)>>>>),
     Construct("SimpleIssueCustomField", <<<<"name", PyNone>>, <<"value", PyStr("text")>>>>),
     Construct("DateIssueCustomField", <<<<"value", OnDay>>>>),
     Construct("SingleEnumIssueCustomField",
               <<<<"value", Construct("EnumBundleElement", <<<<"name", PyNone>>>>)>>>>),
     Construct("MultiEnumIssueCustomField",
               <<<<"value", PyList(<<Construct("EnumBundleElement", <<>>)>>)>>>>)}

IssueInputs ==
    {<<"Issue", kw>> :
        kw \in {<<>>,
                <<<<"summary", PyNone>>>>,
                <<<<"summary", PyStr("s")>>, <<"description", PyNone>>>>,
                <<<<"id_readable", PyStr("YT-1")>>>>,
                <<<<"idReadable", PyStr("YT-1")>>, <<"comments_count", PyInt(2)>>>>,
                <<<<"project", PyNone>>>>,
                <<<<"created", AtMillisecond>>>>,
                <<<<"created", AtMicrosecond>>>>}
               \cup {<<<<"project", p>>>> :
                        p \in Objects("Project", NamedKwargs
                                                 \cup {<<<<"short_name", PyStr("YT")>>>>})}
               \cup {<<<<"tags", c>>>> : c \in Containers(TagObjects)}
               \cup {<<<<"custom_fields", PyList(<<e>>)>>>> : e \in CustomFieldObjects}
               \cup {<<<<"customFields", PyTuple(<<e>>)>>>> : e \in CustomFieldObjects}}

\* The entity classes whose instances need an argument
MultiModels ==
    {"MultiBuildIssueCustomField", "MultiEnumIssueCustomField", "MultiGroupIssueCustomField",
     "MultiOwnedIssueCustomField", "MultiUserIssueCustomField",
     "MultiVersionIssueCustomField"}

\* Every entity class, built with as few arguments as it takes
PlainInputs ==
    {<<c, <<>>>> : c \in Models \ MultiModels}
    \cup {<<c, <<<<"value", PyList(<<>>)>>>>>> : c \in MultiModels}

CodecInputs == PlainInputs \cup CustomFieldInputs \cup IssueInputs

\* The unions a payload is decoded against
UnionTargets == {BundleElement, ProjectCustomFieldType, IssueCustomFieldType}
ChoicesOf(target) == {target.a[1].a[i].n : i \in DOMAIN target.a[1].a}
\* The types the wire form of an entity of class cls is decoded against
TargetsOf(cls) == {TCls(cls)} \cup {u \in UnionTargets : cls \in ChoicesOf(u)}

\* The tags of the variants of a union
UnionTags(target) == UNION {TagsOf(c) : c \in ChoicesOf(target)}

\* What a payload has under "$type": nothing, a tag of some union, the tag
\* of an entity that is in no union, a string that is no tag, or no string
TagItems ==
    {<<>>, <<<<"$type", PyNone>>>>, <<<<"$type", PyInt(1)>>>>}
    \cup {<<<<"$type", PyStr(tag)>>>> :
            tag \in UNION {UnionTags(u) : u \in UnionTargets} \cup {"Tag", "Bogus"}}

DateTimeField ==
    PyDict(<<<<"$type", PyStr("CustomField")>>,
             <<"fieldType", PyDict(<<<<"id", PyStr("date and time")>>>>)>>>>)
\* A project custom field of the field type "date and time"
DateTimeSibling ==
    PyDict(<<<<"$type", PyStr("SimpleProjectCustomField")>>, <<"field", DateTimeField>>>>)
EnumPayload == PyDict(<<<<"$type", PyStr("EnumBundleElement")>>, <<"name", PyStr("n")>>>>)

\* The other keys of a payload
OtherItems ==
    {<<>>,
     <<<<"id", PyStr("1")>>, <<"name", PyStr("n")>>>>,
     <<<<"extra", PyStr("x")>>, <<"name", PyNone>>>>,
     <<<<"value", PyNone>>>>,
     <<<<"value", PyStr("s")>>>>,
     <<<<"value", PyInt(5)>>>>,
     <<<<"value", PyList(<<>>)>>>>,
     <<<<"value", EnumPayload>>>>,
     <<<<"value", PyList(<<EnumPayload>>)>>>>,
     <<<<"field", DateTimeField>>>>,
     <<<<"projectCustomField", DateTimeSibling>>, <<"value", MsInt(1704067200, 123)>>>>,
     <<<<"projectCustomField", DateTimeSibling>>, <<"value", PyStr("2024-01-01")>>>>,
     <<<<"projectCustomField", DateTimeSibling>>, <<"value", PyFloat("1.5")>>>>,
     <<<<"projectCustomField", PyDict(<<<<"$type", PyStr("Bogus")>>>>)>>,
       <<"value", PyInt(5)>>>>}

Payloads ==
    {PyDict(tag \o other) : tag \in TagItems, other \in OtherItems}
    \cup {PyDict(other \o tag) : tag \in TagItems, other \in OtherItems}

\* The entity classes a payload is decoded against
EntityTargets == {TCls("Project"), TCls("IssueComment"), TCls("IssueWorkItem")}

\* Payloads for an entity of class cls, with keys that are wire keys, keys
\* that are the attribute names of aliased fields, and both
EntityPayloads(cls) ==
    {PyDict(tag \o name \o other) :
        tag \in {<<>>, <<<<"$type", PyStr(cls)>>>>},
        name \in {<<>>,
                  <<<<"type", PyStr(cls)>>>>,
                  <<<<"type", PyStr("Bogus")>>>>,
                  <<<<"type", PyDict(<<<<"id", PyStr("1")>>>>)>>>>},
        other \in {<<>>,
                   <<<<"id", PyStr("1-1")>>, <<"text", PyStr("Test comment")>>,
                     <<"deleted", PyBool(FALSE)>>>>,
                   <<<<"short_name", PyStr("YT")>>>>,
                   <<<<"shortName", PyStr("YT")>>>>,
                   <<<<"shortName", PyStr("YT")>>, <<"short_name", PyStr("other")>>>>,
                   <<<<"text_preview", PyStr("p")>>>>,
                   <<<<"textPreview", PyStr("p")>>>>}}


\* The scalars of a structure given to custom_json_dumps
DumpLeaves ==
    {PyDatetime(1612879391, 0), AtMillisecond, AtMicrosecond, OnDay, PyDate(0),
     PyInt(10), PyStr("some text"), PyNone, PyBool(TRUE), PyFloat("1.5"),
     PyFloat("nan")}

\* The structures given to custom_json_dumps: a scalar, a flat dict, a dict
\* of dicts, and a dict with a list of dicts that holds a tuple
DumpInputs ==
    DumpLeaves
    \cup {PyDict(<<<<"some_value", PyInt(10)>>, <<"datetime_value", a>>,
                   <<"date_value", b>>>>) :
            a \in DumpLeaves, b \in {OnDay, PyDate(0), PyNone}}
    \cup {PyDict(<<<<"str_value", PyStr("some text")>>,
                   <<"nested_dict",
                     PyDict(<<<<"int_value", PyInt(12)>>, <<"datetime_value", a>>,
                              <<"enclosed_dict",
                                PyDict(<<<<"none_value", PyNone>>,
                                         <<"date_value", b>>>>)>>>>)>>>>) :
            a \in {PyDatetime(1612879391, 0), PyInt(10)}, b \in DumpLeaves}
    \cup {PyDict(<<<<"str_value", PyStr("some text")>>,
                   <<"list_value",
                     PyList(<<PyDict(<<<<"int_value", PyInt(12)>>,
                                       <<"datetime_value", a>>>>),
                              PyDict(<<<<"nested_tuple_value",
                                         PyTuple(<<PyDict(<<<<"none_value", PyNone>>,
                                                            <<"date_value", b>>>>),
                                                   c>>)>>>>)>>)>>>>) :
            a \in {PyDatetime(1612879391, 0), AtMicrosecond},
            b \in {OnDay, PyFloat("1.5")}, c \in DumpLeaves}

\* The candidates given to validate_youtrack_datetime
ValidatorValues ==
    {PyNone, PyInt(12345), PyInt(0), MsInt(1704067200, 0), MsInt(1704067200, 123),
     AtMillisecond, AtMicrosecond, PyDatetime(1704110400, 0), OnDay,
     PyStr("not an int"), PyStr("1704067200000"), PyFloat("1.5"), PyBool(TRUE),
     PyList(<<>>)}

\* info.data of a call: without the sibling, with the sibling None, with a
\* sibling of some field type id, and with siblings that have no field, no
\* field type, or no id of the field type
ValidatorData ==
    {EmptyDict,
     PyDict(<<<<"id", PyStr("1")>>>>),
     PyDict(<<<<"project_custom_field", PyNone>>>>),
     PyDict(<<<<"project_custom_field",
                Construct("SimpleProjectCustomField", <<>>)>>>>),
     PyDict(<<<<"project_custom_field",
                Construct("SimpleProjectCustomField",
                          <<<<"field", Construct("CustomField", <<>>)>>>>)>>>>),
     PyDict(<<<<"project_custom_field",
                Construct("SimpleProjectCustomField",
                          <<<<"field",
                              Construct("CustomField",
                                        <<<<"field_type",
                                            Construct("FieldType", <<>>)>>>>)>>>>)>>>>)}
    \cup {PyDict(<<<<"project_custom_field", ProjectCustomFieldOf(id)>>>>) :
            id \in {"date and time", "string", "date", "Date and Time"}}

\* The longest custom_fields sequence of an issue looked into
MaxCustomFields == 3

\* The custom fields of the issues looked into: two named State, one named
\* Priority, one without a name
LookupFields ==
    {Construct("StateIssueCustomField", <<<<"name", PyStr("State")>>>>),
     Construct("SimpleIssueCustomField",
               <<<<"name", PyStr("State")>>, <<"value", PyStr("Open")>>>>),
     Construct("SingleEnumIssueCustomField", <<<<"name", PyStr("Priority")>>>>),
     Construct("StateIssueCustomField", <<>>)}

\* The issues looked into: without custom_fields, with custom_fields None,
\* and with every sequence of up to MaxCustomFields of the fields
LookupIssues ==
    {Construct("Issue", <<>>),
     Construct("Issue", <<<<"custom_fields", PyNone>>>>),
     Construct("Issue", <<<<"custom_fields", PyList(<<>>)>>>>)}
    \cup {Construct("Issue", <<<<"custom_fields", PyTuple(fs)>>>>) :
            fs \in UNION {[1..n -> LookupFields] : n \in 0..MaxCustomFields}}

LookupNames == {PyStr("State"), PyStr("Priority"), PyStr("Unknown")}

\* The caller-supplied parameters of a _build_url call, as the client
\* methods pass them
UrlKwargs ==
    {<<>>,
     <<<<"query", PyNone>>, <<"customFields", PyTuple(<<>>)>>>>,
     <<<<"query", PyStr("project: YT")>>,
       <<"customFields", PyTuple(<<PyStr("State"), PyStr("Priority")>>)>>>>,
     <<<<"muteUpdateNotifications", PyBool(FALSE)>>>>,
     <<<<"muteUpdateNotifications", PyBool(TRUE)>>>>,
     <<<<"muteUpdateNotifications", PyNone>>>>,
     <<<<"$skip", PyInt(0)>>, <<"$top", PyNone>>>>,
     <<<<"$skip", PyInt(10)>>, <<"$top", PyInt(100)>>>>}

\* The arguments of a _build_url call: fields, offset, count, kwargs
UrlInputs ==
    {<<fields, offset, count, kwargs>> :
        fields \in {PyNone, PyStr("id,name"), PyStr("$type,id")},
        offset \in {PyNone, PyInt(0), PyInt(10)},
        count \in {PyNone, PyInt(0), PyInt(100)},
        kwargs \in UrlKwargs}

\* The greatest length of a list given to deep_update
MaxListLen == 2

\* Field trees of one level, and of two: dicts whose values are field trees
LeafTrees ==
    {PyDict(<<>>)}
    \cup {PyDict(<<<<key, PyDict(<<>>)>>>>) : key \in {"a", "b"}}
    \cup {PyDict(<<<<"a", PyDict(<<>>)>>, <<"b", PyDict(<<>>)>>>>),
          PyDict(<<<<"b", PyDict(<<>>)>>, <<"a", PyDict(<<>>)>>>>)}
FieldTrees ==
    {PyDict(<<>>)}
    \cup {PyDict(<<<<key, t>>>>) : key \in {"a", "b"}, t \in LeafTrees}
    \cup {PyDict(<<<<"a", t>>, <<"b", u>>>>) : t \in LeafTrees, u \in LeafTrees}
    \cup {PyDict(<<<<"b", PyDict(<<>>)>>, <<"a", t>>>>) : t \in LeafTrees}

\* The elements of a list value, of every kind
ListElements ==
    {PyDict(<<>>), PyDict(<<<<"a", PyStr("x")>>>>), PyDict(<<<<"a", PyNone>>>>),
     PyStr("s"), PyInt(1), PyNone, PyList(<<>>)}
\* The lists of up to MaxListLen elements
ListValues ==
    {PyList(<<>>)}
    \cup {PyList(<<e>>) : e \in ListElements}
    \cup {PyList(<<d, e>>) : d \in ListElements, e \in ListElements}

\* The arguments of a deep_update call: dest and the mappings
MergeInputs ==
    {<<t, u>> : t \in FieldTrees, u \in FieldTrees}
    \cup {<<t, u, w>> : t \in LeafTrees \cup {PyDict(<<<<"a", x>>>>) : x \in LeafTrees},
                        u \in LeafTrees \cup {PyDict(<<<<"a", x>>>>) : x \in LeafTrees},
                        w \in LeafTrees \cup {PyDict(<<<<"a", x>>>>) : x \in LeafTrees}}
    \cup {<<PyDict(<<<<"k", xs>>>>), PyDict(<<<<"k", ys>>>>)>> :
             xs \in ListValues, ys \in ListValues}

-----------------------------------------------------------------------------
(* async_client.AsyncClient: the calls of the client as tasks of one event  *)
(* loop, and the client as a context manager.  A call is a row: the method, *)
(* what it gives to _build_url, the body it sends, the helper it awaits     *)
(* (_get_bytes and _post_bytes are "bytes", _post and _delete "plain"), the  *)
(* type it decodes against and whether it returns the result.  The URL of a *)
(* request is its path and the parameters urlencode is given.  The httpx    *)
(* client is in one of the states of httpx's ClientState.                    *)

Row(name, method, path, selected, suffix, offset, count, kwargs, data, via, target, returns) ==
    [name |-> name, method |-> method, path |-> path, selected |-> selected,
     suffix |-> suffix, offset |-> offset, count |-> count, kwargs |-> kwargs,
     data |-> data, via |-> via, target |-> target, returns |-> returns]

\* offset: int = 0, count: int = -1
DefaultOffset == PyInt(0)
DefaultCount == PyInt(-1)
\* mute_update_notifications: bool = False
Mute == <<<<"muteUpdateNotifications", PyBool(FALSE)>>>>
\* Class and keyword arguments of a field of type float and value nan
NanField == <<"SimpleIssueCustomField", <<<<"value", PyFloat("nan")>>>>>>

\* Class and keyword arguments of the objects the calls send; the last is
\* a field of type float and value nan, which json.dumps refuses
SentObjects ==
    <<<<"Issue", <<<<"summary", PyStr("s")>>>>>>,
      <<"Issue", <<<<"summary", PyNone>>>>>>,
      <<"SimpleIssueCustomField", <<<<"id", PyStr("1")>>, <<"value", PyInt(5)>>>>>>,
      <<"IssueComment", <<<<"text", PyStr("t")>>>>>>,
      <<"IssueComment", <<<<"id", PyStr("1")>>, <<"text", PyStr("t")>>>>>>,
      <<"IssueComment", <<<<"id", PyStr("1")>>, <<"deleted", PyBool(TRUE)>>>>>>,
      <<"IssueWorkItem", <<<<"text", PyStr("t")>>>>>>,
      <<"Tag", <<<<"id", PyStr("1")>>>>>>,
      <<"Issue", <<<<"id", PyStr("DEMO-2")>>>>>>,
      NanField>>
\* A call that sends no object
NoObject == 0
\* The objects, constructed
Sent == [i \in DOMAIN SentObjects |-> Construct(SentObjects[i][1], SentObjects[i][2])]
\* data of a call: None, or the object constructed
DataOf(sent) == IF sent = NoObject THEN PyNone ELSE Sent[sent]
\* What the calls name, each with the data it stands for
SentData == {<<sent, DataOf(sent)>> : sent \in {NoObject} \cup DOMAIN SentObjects}

\* The public methods of AsyncClient, each with the arguments of one call;
\* the object a call sends is named by its place in SentObjects
AsyncCalls ==
    {Row("get_issue", "GET", "/issues/DEMO-1", TCls("Issue"), "",
         PyNone, PyNone, <<>>, NoObject, "bytes", TCls("Issue"), TRUE),
     Row("get_issues", "GET", "/issues/", TCls("Issue"), "",
         DefaultOffset, DefaultCount,
         <<<<"query", PyNone>>, <<"customFields", PyTuple(<<>>)>>>>,
         NoObject, "bytes", TSequence(TCls("Issue")), TRUE),
     Row("create_issue", "POST", "/issues", TCls("Issue"), "",
         PyNone, PyNone, <<>>, 1,
         "bytes", TCls("Issue"), TRUE),
     Row("update_issue", "POST", "/issues/DEMO-1", TCls("Issue"), "",
         PyNone, PyNone, Mute, 2,
         "bytes", TCls("Issue"), TRUE),
     Row("get_issue_custom_fields", "GET", "/issues/DEMO-1/customFields",
         IssueCustomFieldType, "", DefaultOffset, DefaultCount, <<>>, NoObject,
         "bytes", TSequence(IssueCustomFieldType), TRUE),
     Row("update_issue_custom_field", "POST", "/issues/DEMO-1/customFields/1",
         IssueCustomFieldType, "", PyNone, PyNone, Mute,
         3,
         "bytes", IssueCustomFieldType, TRUE),
     Row("update_issue_custom_field", "POST", "/issues/DEMO-1/customFields/None",
         IssueCustomFieldType, "", PyNone, PyNone, Mute, 10,
         "bytes", IssueCustomFieldType, TRUE),
     Row("get_project_custom_fields", "GET", "/admin/projects/DEMO/customFields",
         ProjectCustomFieldType, ",field(name,fieldType(id)),bundle(values(id,name))",
         PyNone, PyNone, <<<<"$skip", DefaultOffset>>, <<"$top", PyNone>>>>, NoObject,
         "bytes", TSequence(ProjectCustomFieldType), TRUE),
     Row("delete_issue", "DELETE", "/issues/DEMO-1", NoCall, "",
         PyNone, PyNone, <<>>, NoObject, "plain", NoCall, FALSE),
     Row("get_issue_comments", "GET", "/issues/DEMO-1/comments", TCls("IssueComment"), "",
         DefaultOffset, DefaultCount, <<>>, NoObject,
         "bytes", TSequence(TCls("IssueComment")), TRUE),
     Row("create_issue_comment", "POST", "/issues/DEMO-1/comments", TCls("IssueComment"), "",
         PyNone, PyNone, <<>>, 4,
         "bytes", TCls("IssueComment"), TRUE),
     Row("update_issue_comment", "POST", "/issues/DEMO-1/comments/1", TCls("IssueComment"), "",
         PyNone, PyNone, Mute,
         5,
         "bytes", TCls("IssueComment"), TRUE),
     Row("hide_issue_comment", "POST", "/issues/DEMO-1/comments/1", TCls("IssueComment"), "",
         PyNone, PyNone, Mute,
         6,
         "bytes", TCls("IssueComment"), FALSE),
     Row("delete_issue_comment", "DELETE", "/issues/DEMO-1/comments/1", NoCall, "",
         PyNone, PyNone, <<>>, NoObject, "plain", NoCall, FALSE),
     Row("get_issue_attachments", "GET", "/issues/DEMO-1/attachments",
         TCls("IssueAttachment"), "", DefaultOffset, DefaultCount, <<>>, NoObject,
         "bytes", TSequence(TCls("IssueAttachment")), TRUE),
     Row("create_issue_attachments", "POST", "/issues/DEMO-1/attachments",
         TCls("IssueAttachment"), "", PyNone, PyNone, <<>>, NoObject,
         "bytes", TSequence(TCls("IssueAttachment")), TRUE),
     Row("create_comment_attachments", "POST", "/issues/DEMO-1/comments/1/attachments",
         TCls("IssueAttachment"), "", PyNone, PyNone, <<>>, NoObject,
         "bytes", TSequence(TCls("IssueAttachment")), TRUE),
     Row("get_issue_work_items", "GET", "/issues/DEMO-1/timeTracking/workItems",
         TCls("IssueWorkItem"), "", DefaultOffset, DefaultCount, <<>>, NoObject,
         "bytes", TSequence(TCls("IssueWorkItem")), TRUE),
     Row("create_issue_work_item", "POST", "/issues/DEMO-1/timeTracking/workItems",
         TCls("IssueWorkItem"), "", PyNone, PyNone, <<>>,
         7,
         "bytes", TCls("IssueWorkItem"), TRUE),
     Row("get_projects", "GET", "/admin/projects", TCls("Project"), "",
         DefaultOffset, DefaultCount, <<>>, NoObject,
         "bytes", TSequence(TCls("Project")), TRUE),
     Row("get_project_work_item_types", "GET",
         "/admin/projects/DEMO/timeTrackingSettings/workItemTypes",
         TCls("WorkItemType"), "", DefaultOffset, DefaultCount, <<>>, NoObject,
         "bytes", TSequence(TCls("WorkItemType")), TRUE),
     Row("get_tags", "GET", "/tags", TCls("Tag"), "",
         DefaultOffset, DefaultCount, <<>>, NoObject,
         "bytes", TSequence(TCls("Tag")), TRUE),
     Row("add_issue_tag", "POST", "/issues/DEMO-1/tags", NoCall, "",
         PyNone, PyNone, <<>>, 8,
         "plain", NoCall, FALSE),
     Row("get_users", "GET", "/users", TCls("User"), "",
         DefaultOffset, DefaultCount, <<>>, NoObject,
         "bytes", TSequence(TCls("User")), TRUE),
     Row("get_issue_links", "GET", "/issues/DEMO-1/links", TCls("IssueLink"), "",
         DefaultOffset, DefaultCount, <<>>, NoObject,
         "bytes", TSequence(TCls("IssueLink")), TRUE),
     Row("get_issue_link_types", "GET", "/issueLinkTypes", TCls("IssueLinkType"), "",
         DefaultOffset, DefaultCount, <<>>, NoObject,
         "bytes", TSequence(TCls("IssueLinkType")), TRUE),
     Row("link_issues", "POST", "/issues/DEMO-1/links/1s/issues", TCls("Issue"), "",
         PyNone, PyNone, <<>>, 9,
         "bytes", TCls("Issue"), TRUE),
     Row("delete_issue_link", "DELETE", "/issues/DEMO-1/links/1/issues/DEMO-2", NoCall, "",
         PyNone, PyNone, <<>>, NoObject, "plain", NoCall, FALSE),
     Row("get_agiles", "GET", "/agiles", TCls("Agile"), "",
         DefaultOffset, DefaultCount, <<>>, NoObject,
         "bytes", TSequence(TCls("Agile")), TRUE),
     Row("get_agile", "GET", "/agiles/1", TCls("Agile"), "",
         PyNone, PyNone, <<>>, NoObject, "bytes", TCls("Agile"), TRUE),
     Row("get_sprints", "GET", "/agiles/1/sprints", TCls("Sprint"), "",
         DefaultOffset, DefaultCount, <<>>, NoObject,
         "bytes", TSequence(TCls("Sprint")), TRUE),
     Row("get_sprint", "GET", "/agiles/1/sprints/2", TCls("Sprint"), "",
         PyNone, PyNone, <<>>, NoObject, "bytes", TCls("Sprint"), TRUE)}

\* The types the client gives to model_to_field_names
SelectedTypes == {call.selected : call \in {c \in AsyncCalls : c.via = "bytes"}}
\* model_to_field_names of each of them
Selectors == [model \in SelectedTypes |-> ModelToFieldNames(model)]

\* The fields argument of a call that selects the fields of Issue whatever
\* it decodes
FieldsArgumentOfIssue(call) ==
    IF call.selected = NoCall THEN PyNone ELSE Selectors[TCls("Issue")]
\* The fields argument of a call: none, model_to_field_names(<selected>),
\* or the f-string that continues it
FieldsArgument(call) ==
    CASE call.selected = NoCall -> PyNone
      [] call.selected # NoCall /\ call.suffix = "" -> Selectors[call.selected]
      [] OTHER -> PyStr(Str(Selectors[call.selected]) \o call.suffix)

\* content=data and obj_to_json(data)
Content(data) == IF data.k = "NoneType" THEN data ELSE ObjToJson(data)

\* The states of httpx's ClientState
ClientStates == {"UNOPENED", "OPENED", "CLOSED"}

\* httpx.AsyncClient.__aenter__: a client is opened once; the state it
\* leaves the client in and whether it raised RuntimeError
HttpxAenter(state) ==
    [state |-> IF state = "UNOPENED" THEN "OPENED" ELSE state, raised |-> state # "UNOPENED"]
\* An __aexit__ that leaves the client as it is
HttpxAexitNoClose(state) == state
\* httpx.AsyncClient.__aexit__
HttpxAexit(state) == "CLOSED"

\* A call with an await between its steps: every step gives up the loop
SuspendsAtEveryStep(pc) == TRUE
\* Whether the step at pc ends in an await that gives up the event loop:
\* await self._client.request(...) is the only one
SuspensionPoint(pc) == pc = "request"

\* A call that sends the request again when it failed
AfterFailureRetry(failure) == "request"
\* Where a call goes when its request failed: no try encloses the await,
\* the exception leaves the call
AfterFailure(failure) == "done"

\* A response, and an exception of the transport in its place
Response(status_code, content) == [k |-> "response", v |-> <<status_code, content>>]

\* The helper a call awaits, from the response on; its messages name the
\* path of the URL
Helper(call, status_code, content) ==
    CASE call.via = "bytes" /\ call.method = "GET" -> GetBytes(call.path, status_code, content)
      [] call.via = "bytes" /\ call.method = "POST" -> PostBytes(call.path, status_code, content)
      [] call.via = "plain" /\ call.method = "DELETE" ->
            ClientDelete(call.path, status_code, content)
      [] OTHER -> ClientPost(call.path, status_code, content)

\* What the awaited helper gives the method: what became of the response,
\* or the exception of the transport
Awaited(call, response) ==
    IF response.k = "raise" THEN Raised(response.v, <<>>)
    ELSE Helper(call, response.v[1], response.v[2])

\* return <outcome>, or nothing for a method of result type None
ReturnOrNot(returns, outcome) == IF returns THEN outcome ELSE Discard(outcome)
\* What the method makes of what the helper gave it
Finish(call, given) ==
    IF call.via = "bytes" THEN ReturnOrNot(call.returns, DecodeResponse(call.target, given))
    ELSE Discard(given)

\* What is kept of an outcome: that the call returned, or the exception
Kind(outcome) ==
    [k |-> outcome.k, v |-> IF outcome.k = "raise" THEN outcome.v ELSE "None"]

\* A task: where it is in its call, the locals of the call, the calls of
\* self._client.request it made, the response it was resumed with and the
\* outcome of the call
IdleTask ==
    [pc |-> "idle", call |-> NoCall, fields |-> NoResult, params |-> NoResult,
     content |-> NoResult, requests |-> 0, response |-> NoResult, outcome |-> NoResult]

\* The calls in flight on one client at a time
MaxTasks == 2
Tasks == 1..MaxTasks
NoTask == 0

\* The calls made while another call is in flight or over
ConcurrentCalls == {call \in AsyncCalls : call.name \in {"get_issue", "create_issue", "delete_issue"}}

\* What the server answers, and a connect timeout in place of an answer
AsyncResponses ==
    {Response(200, Bytes(<<PyDict(<<>>)>>)),
     Response(200, Bytes(<<PyList(<<>>)>>)),
     Response(200, EmptyContent),
     Response(404, EmptyContent),
     Response(401, EmptyContent),
     Response(500, EmptyContent),
     Raise("ConnectTimeout")}

\* The calls of self._client.request one call is followed for
MaxRequests == 2

-----------------------------------------------------------------------------
(* State machine *)

Init ==
    /\ projModel = NoCall
    /\ projFields = NoResult
    /\ projResult = NoResult
    /\ encObj = NoResult
    /\ encDict = NoResult
    /\ encWire = NoResult
    /\ decTarget = NoCall
    /\ decPayload = NoResult
    /\ decResult = NoResult
    /\ dumpObj = NoResult
    /\ dumpWire = NoResult
    /\ valValue = NoResult
    /\ valData = NoResult
    /\ valResult = NoResult
    /\ reqCall = NoResult
    /\ respStatus = NoResult
    /\ respContent = NoResult
    /\ callOutcome = NoResult
    /\ lookupIssue = NoResult
    /\ lookupName = NoResult
    /\ lookupResult = NoResult
    /\ urlArgs = NoResult
    /\ urlResult = NoResult
    /\ mergeArgs = NoResult
    /\ mergeResult = NoResult
    /\ mergeAfter = NoResult
    /\ httpClient = "UNOPENED"
    /\ block = "before"
    /\ tasks = [t \in Tasks |-> IdleTask]
    /\ running = NoTask

\* One call model_to_field_names(model)
CallModelToFieldNames ==
    \E model \in ProjectionInputs :
        /\ projModel' = model
        /\ projFields' = FieldsDict(model)
        /\ projResult' = SelectorOf(projFields')
        /\ UNCHANGED <<codecVars, dumpVars, validatorVars, clientVars, lookupVars, urlVars, mergeVars, asyncVars>>

NextProjection == CallModelToFieldNames

SpecProjection == Init /\ [][NextProjection]_vars

\* The codec keeps nothing from one call to the next: a behaviour is one
\* call, of obj_to_json (and the decoding of what it sent) or of a decoder
CodecIdle == encObj = NoResult /\ decTarget = NoCall

\* One call obj_to_json(obj), obj being None or an entity a constructor
\* returned; the JSON text is then on the wire
CallObjToJson ==
    \E obj \in {PyNone} \cup {Construct(input[1], input[2]) : input \in CodecInputs} :
        /\ CodecIdle
        /\ ~IsRaise(obj)
        /\ encObj' = obj
        /\ encDict' = ObjToDict(obj)
        /\ encWire' = CustomJsonDumps(encDict')
        /\ decTarget' = NoCall
        /\ decPayload' = NoResult
        /\ decResult' = NoResult
        /\ UNCHANGED <<projVars, dumpVars, validatorVars, clientVars, lookupVars, urlVars, mergeVars, asyncVars>>

\* The wire form of the entity last encoded is decoded against its type
DecodeWire ==
    /\ encObj.k = "model"
    /\ decTarget = NoCall
    /\ ~IsRaise(encWire)
    /\ \E target \in TargetsOf(encObj.v.cls) :
        /\ decTarget' = target
        /\ decPayload' = encWire
        /\ decResult' = ValidateJson(target, encWire)
    /\ UNCHANGED <<projVars, encObj, encDict, encWire, dumpVars, validatorVars, clientVars, lookupVars, urlVars, mergeVars, asyncVars>>

\* A payload received is decoded against a union
DecodePayload ==
    \E target \in UnionTargets, payload \in Payloads :
        /\ CodecIdle
        /\ decTarget' = target
        /\ decPayload' = payload
        /\ decResult' = ValidateJson(target, payload)
        /\ encObj' = NoResult
        /\ encDict' = NoResult
        /\ encWire' = NoResult
        /\ UNCHANGED <<projVars, dumpVars, validatorVars, clientVars, lookupVars, urlVars, mergeVars, asyncVars>>

\* A payload received is decoded against an entity class
DecodeEntity ==
    \E target \in EntityTargets :
        \E payload \in EntityPayloads(target.n) :
            /\ CodecIdle
            /\ decTarget' = target
            /\ decPayload' = payload
            /\ decResult' = ValidateJson(target, payload)
            /\ encObj' = NoResult
            /\ encDict' = NoResult
            /\ encWire' = NoResult
            /\ UNCHANGED <<projVars, dumpVars, validatorVars, clientVars, lookupVars, urlVars, mergeVars, asyncVars>>

NextCodec == CallObjToJson \/ DecodeWire \/ DecodePayload \/ DecodeEntity

SpecCodec == Init /\ [][NextCodec]_vars

\* One call custom_json_dumps(obj)
CallCustomJsonDumps ==
    \E obj \in DumpInputs :
        /\ dumpObj' = obj
        /\ dumpWire' = CustomJsonDumps(obj)
        /\ UNCHANGED <<projVars, codecVars, validatorVars, clientVars, lookupVars, urlVars, mergeVars, asyncVars>>

NextDumps == CallCustomJsonDumps

SpecDumps == Init /\ [][NextDumps]_vars

\* One call validate_youtrack_datetime(value, info)
CallValidateYoutrackDatetime ==
    \E value \in ValidatorValues :
        \E data \in ValidatorData :
            /\ valValue' = value
            /\ valData' = data
            /\ valResult' = ValidateYoutrackDatetime(value, data)
            /\ UNCHANGED <<projVars, codecVars, dumpVars, clientVars, lookupVars, urlVars, mergeVars, asyncVars>>

NextValidator == CallValidateYoutrackDatetime

SpecValidator == Init /\ [][NextValidator]_vars

\* One request _send_request(method=..., url=...) and the response to it
CallSendRequest ==
    \E method \in {"GET", "POST", "DELETE"}, status_code \in StatusCodes, content \in Contents :
        /\ reqCall' = <<"_send_request", method, "https://server/api/issues?">>
        /\ respStatus' = status_code
        /\ respContent' = content
        /\ callOutcome' = SendRequest(method, "https://server/api/issues?", status_code, content)
        /\ UNCHANGED <<projVars, codecVars, dumpVars, validatorVars, lookupVars, urlVars, mergeVars, asyncVars>>

\* One call that returns an entity, made through _get_bytes or _post_bytes
CallEntity ==
    \E call \in EntityCalls, status_code \in StatusCodes, content \in Contents :
        /\ reqCall' = call
        /\ respStatus' = status_code
        /\ respContent' = content
        /\ callOutcome' =
              DecodeResponse(call[4],
                             IF call[2] = "GET" THEN GetBytes(call[3], status_code, content)
                             ELSE PostBytes(call[3], status_code, content))
        /\ UNCHANGED <<projVars, codecVars, dumpVars, validatorVars, lookupVars, urlVars, mergeVars, asyncVars>>

\* hide_issue_comment: update_issue_comment, its result not returned
CallHideIssueComment ==
    \E status_code \in StatusCodes, content \in Contents :
        /\ reqCall' = <<"hide_issue_comment", "POST",
                        "https://server/api/issues/DEMO-1/comments/1?fields=id">>
        /\ respStatus' = status_code
        /\ respContent' = content
        /\ callOutcome' =
              Discard(DecodeResponse(TCls("IssueComment"),
                                     PostBytes(reqCall'[3], status_code, content)))
        /\ UNCHANGED <<projVars, codecVars, dumpVars, validatorVars, lookupVars, urlVars, mergeVars, asyncVars>>

\* One call that returns nothing, made through _delete or _post
CallNothing ==
    \E call \in NothingCalls, status_code \in StatusCodes, content \in Contents :
        /\ reqCall' = call
        /\ respStatus' = status_code
        /\ respContent' = content
        /\ callOutcome' =
              Discard(IF call[2] = "DELETE" THEN ClientDelete(call[3], status_code, content)
                      ELSE ClientPost(call[3], status_code, content))
        /\ UNCHANGED <<projVars, codecVars, dumpVars, validatorVars, lookupVars, urlVars, mergeVars, asyncVars>>

NextClient == CallSendRequest \/ CallEntity \/ CallHideIssueComment \/ CallNothing

SpecClient == Init /\ [][NextClient]_vars

\* One call get_issue_custom_field(issue, field_name)
CallGetIssueCustomField ==
    \E issue \in LookupIssues, field_name \in LookupNames :
        /\ lookupIssue' = issue
        /\ lookupName' = field_name
        /\ lookupResult' = GetIssueCustomField(issue, field_name)
        /\ UNCHANGED <<projVars, codecVars, dumpVars, validatorVars, clientVars,
                       urlVars, mergeVars, asyncVars>>

NextLookup == CallGetIssueCustomField

SpecLookup == Init /\ [][NextLookup]_vars

\* One call self._build_url(path=..., fields=..., offset=..., count=..., **kwargs)
CallBuildUrl ==
    \E args \in UrlInputs :
        /\ urlArgs' = args
        /\ urlResult' = BuildUrl("https://server", "/issues/", args[1], args[2], args[3], args[4])
        /\ UNCHANGED <<projVars, codecVars, dumpVars, validatorVars, clientVars,
                       lookupVars, mergeVars, asyncVars>>

NextUrl == CallBuildUrl

SpecUrl == Init /\ [][NextUrl]_vars

\* One call deep_update(dest, *mappings).  deep_update keeps nothing from
\* one call to the next: a behaviour is one call.
CallDeepUpdate ==
    \E args \in MergeInputs :
        /\ mergeResult = NoResult
        /\ mergeArgs' = args
        /\ mergeResult' = DeepUpdate(args[1], Tail(args))
        /\ mergeAfter' = <<DestAfter(args[1], mergeResult')>> \o Tail(args)
        /\ UNCHANGED <<projVars, codecVars, dumpVars, validatorVars, clientVars,
                       lookupVars, urlVars, asyncVars>>

NextMerge == CallDeepUpdate

SpecMerge == Init /\ [][NextMerge]_vars

\* The event loop can run task t: t holds it, or no task does
CanRun(t) == running = t \/ running = NoTask
\* Who holds the loop after task t took the step at pc and is then at next
Holder(t, pc, next) == IF SuspensionPoint(pc) \/ next = "done" THEN NoTask ELSE t

\* Task t takes a step that makes its record task
Step(t, pc, task) ==
    /\ tasks' = [tasks EXCEPT ![t] = task]
    /\ running' = Holder(t, pc, task.pc)

\* A coroutine of a client method is created: client.<method>(...), by the
\* code that runs on the loop when no call does
StartCall ==
    \E t \in Tasks :
        \E call \in AsyncCalls :
            /\ tasks[t].pc = "idle"
            /\ running = NoTask
            /\ (\E u \in Tasks : tasks[u].pc # "idle") => call \in ConcurrentCalls
            /\ tasks' = [tasks EXCEPT ![t] = [@ EXCEPT !.pc = "select", !.call = call]]
            /\ UNCHANGED <<httpClient, block, running>>
            /\ UNCHANGED <<projVars, codecVars, dumpVars, validatorVars, clientVars,
                           lookupVars, urlVars, mergeVars>>

\* The task once an argument of its request is evaluated to value: the
\* next argument follows, or the exception leaves the call
WithFields(task, fields) ==
    [task EXCEPT !.fields = fields,
                 !.pc = IF IsRaise(fields) THEN "done" ELSE "url",
                 !.outcome = IF IsRaise(fields) THEN Kind(fields) ELSE @]
WithContent(task, content) ==
    [task EXCEPT !.content = content,
                 !.pc = IF IsRaise(content) THEN "done" ELSE "request",
                 !.outcome = IF IsRaise(content) THEN Kind(content) ELSE @]
\* The task once the helper gave it something, or raised
WithGiven(task, given) ==
    IF given.k = "raise"
    THEN [task EXCEPT !.pc = AfterFailure(given), !.outcome = Kind(given)]
    ELSE [task EXCEPT !.pc = "decode"]
\* The task once the method has its outcome
WithOutcome(task, outcome) ==
    [task EXCEPT !.pc = IF outcome.k = "raise" THEN AfterFailure(outcome) ELSE "done",
                 !.outcome = Kind(outcome)]

\* fields=model_to_field_names(T), the first argument evaluated
Select ==
    \E t \in Tasks :
        /\ tasks[t].pc = "select"
        /\ CanRun(t)
        /\ Step(t, "select", WithFields(tasks[t], FieldsArgument(tasks[t].call)))
        /\ UNCHANGED <<httpClient, block>>
        /\ UNCHANGED <<projVars, codecVars, dumpVars, validatorVars, clientVars,
                       lookupVars, urlVars, mergeVars>>

\* url=self._build_url(path=..., fields=..., ...)
Url ==
    \E t \in Tasks :
        /\ tasks[t].pc = "url"
        /\ CanRun(t)
        /\ Step(t, "url",
                [tasks[t] EXCEPT !.params = QueryParams(tasks[t].fields, tasks[t].call.offset,
                                                        tasks[t].call.count, tasks[t].call.kwargs),
                                 !.pc = "encode"])
        /\ UNCHANGED <<httpClient, block>>
        /\ UNCHANGED <<projVars, codecVars, dumpVars, validatorVars, clientVars,
                       lookupVars, urlVars, mergeVars>>

\* content=data and obj_to_json(data), an argument of self._client.request
Encode ==
    \E t \in Tasks, sent \in SentData :
        /\ tasks[t].pc = "encode"
        /\ CanRun(t)
        /\ sent[1] = tasks[t].call.data
        /\ Step(t, "encode", WithContent(tasks[t], Content(sent[2])))
        /\ UNCHANGED <<httpClient, block>>
        /\ UNCHANGED <<projVars, codecVars, dumpVars, validatorVars, clientVars,
                       lookupVars, urlVars, mergeVars>>

\* await self._client.request(...): httpx refuses a closed client, opens an
\* unopened one, and the task waits for the response
Request ==
    \E t \in Tasks :
        /\ tasks[t].pc = "request"
        /\ CanRun(t)
        /\ tasks[t].requests < MaxRequests
        /\ IF httpClient = "CLOSED"
           THEN /\ Step(t, "request",
                        [tasks[t] EXCEPT !.requests = @ + 1, !.pc = "done",
                                         !.outcome = Kind(Raise("RuntimeError"))])
                /\ UNCHANGED httpClient
           ELSE /\ Step(t, "request", [tasks[t] EXCEPT !.requests = @ + 1, !.pc = "awaiting"])
                /\ httpClient' = "OPENED"
        /\ UNCHANGED block
        /\ UNCHANGED <<projVars, codecVars, dumpVars, validatorVars, clientVars,
                       lookupVars, urlVars, mergeVars>>

\* The request is over, with a response or an exception of the transport,
\* and the loop resumes the task
Respond ==
    \E t \in Tasks :
        \E response \in AsyncResponses :
            /\ tasks[t].pc = "awaiting"
            /\ running = NoTask
            /\ tasks' = [tasks EXCEPT ![t] = [@ EXCEPT !.response = response, !.pc = "status"]]
            /\ running' = t
            /\ UNCHANGED <<httpClient, block>>
            /\ UNCHANGED <<projVars, codecVars, dumpVars, validatorVars, clientVars,
                           lookupVars, urlVars, mergeVars>>

\* The rest of _send_request and of the helper: the exception of the
\* transport leaves the call, the status code is mapped, an empty response
\* refused by _get_bytes and _post_bytes
Status ==
    \E t \in Tasks :
        /\ tasks[t].pc = "status"
        /\ CanRun(t)
        /\ Step(t, "status", WithGiven(tasks[t], Awaited(tasks[t].call, tasks[t].response)))
        /\ UNCHANGED <<httpClient, block>>
        /\ UNCHANGED <<projVars, codecVars, dumpVars, validatorVars, clientVars,
                       lookupVars, urlVars, mergeVars>>

\* The method decodes what the helper returned, and returns
Decode ==
    \E t \in Tasks :
        /\ tasks[t].pc = "decode"
        /\ CanRun(t)
        /\ Step(t, "decode",
                WithOutcome(tasks[t],
                            Finish(tasks[t].call, Awaited(tasks[t].call, tasks[t].response))))
        /\ UNCHANGED <<httpClient, block>>
        /\ UNCHANGED <<projVars, codecVars, dumpVars, validatorVars, clientVars,
                       lookupVars, urlVars, mergeVars>>

\* async with client: __aenter__ awaits self._client.__aenter__(), and the
\* block is entered unless that raised
Aenter ==
    /\ block = "before"
    /\ running = NoTask
    /\ httpClient' = HttpxAenter(httpClient).state
    /\ block' = IF HttpxAenter(httpClient).raised THEN "not entered" ELSE "inside"
    /\ UNCHANGED <<tasks, running>>
    /\ UNCHANGED <<projVars, codecVars, dumpVars, validatorVars, clientVars,
                   lookupVars, urlVars, mergeVars>>

\* The block is left, by its end or by an exception: __aexit__ awaits
\* self._client.__aexit__(...) and returns None, so the exception goes on
Aexit ==
    \E how \in {"left", "left by exception"} :
        /\ block = "inside"
        /\ running = NoTask
        /\ block' = how
        /\ httpClient' = HttpxAexit(httpClient)
        /\ UNCHANGED <<tasks, running>>
        /\ UNCHANGED <<projVars, codecVars, dumpVars, validatorVars, clientVars,
                       lookupVars, urlVars, mergeVars>>

NextAsync ==
    \/ StartCall
    \/ Select
    \/ Url
    \/ Encode
    \/ Request
    \/ Respond
    \/ Status
    \/ Decode
    \/ Aenter
    \/ Aexit

SpecAsync == Init /\ [][NextAsync]_vars

Next == NextProjection \/ NextCodec \/ NextDumps \/ NextValidator \/ NextClient \/ NextLookup \/ NextUrl \/ NextMerge \/ NextAsync

Spec == Init /\ [][Next]_vars

-----------------------------------------------------------------------------
(* Claims about the projection engine *)

\* The member types of a union, bare or wrapped in Annotated
UnionMembers(model) ==
    IF model.k = "Annotated" THEN model.a[1].a ELSE model.a

IsEntityUnion(model) ==
    /\ \/ model.k = "Union"
       \/ model.k = "Annotated" /\ model.a[1].k = "Union"
    /\ \A i \in 1..Len(UnionMembers(model)) :
          /\ UnionMembers(model)[i].k = "class"
          /\ UnionMembers(model)[i].n \in AllModels

RECURSIVE NoDuplicateKeys(_)
NoDuplicateKeys(tree) ==
    /\ \A i, j \in 1..Len(tree.v) : tree.v[i][1] = tree.v[j][1] => i = j
    /\ \A i \in 1..Len(tree.v) : NoDuplicateKeys(tree.v[i][2])

RECURSIVE Flatten(_, _)
Flatten(seqs, i) ==
    IF i > Len(seqs) THEN <<>> ELSE seqs[i] \o Flatten(seqs, i + 1)

\* s without the later occurrences of its elements
FirstOccurrences(s) ==
    LET Keep(i) == \A j \in 1..(i - 1) : s[j] # s[i]
        kept == {i \in 1..Len(s) : Keep(i)}
        Rank(i) == Cardinality({j \in kept : j <= i})
    IN  [r \in 1..Cardinality(kept) |-> s[CHOOSE i \in kept : Rank(i) = r]]

RECURSIVE MergedTree(_)
\* What merging field trees means: the keys of all the trees, each once, in
\* the order they are first met, and under each key the merge of the
\* sub-trees of the trees that have the key.
MergedTree(trees) ==
    LET order == FirstOccurrences(Flatten([i \in 1..Len(trees) |-> Keys(trees[i])], 1))
        Under(key) ==
            LET Has(t) == HasKey(t, key)
                with == SelectSeq(trees, Has)
            IN  MergedTree([i \in 1..Len(with) |-> Get(with[i], key)])
    IN  PyDict([j \in 1..Len(order) |-> <<order[j], Under(order[j])>>])

\* C1: for a union of entity types, bare or Annotated, the selector lists
\* every wire field name at most once per nesting level, a field of several
\* members carries the merge of its sub-selectors, and the fields come in
\* first-met order over the members from left to right:
\* A{x, y(a,b)} | B{y(c), z} gives x,y(a,b,c),z.
C1_UnionFieldsMergedOnce ==
    (IsEntityUnion(projModel) /\ ~IsRaise(projFields)) =>
        LET members == UnionMembers(projModel)
        IN  /\ NoDuplicateKeys(projFields)
            /\ projFields = MergedTree([i \in 1..Len(members) |-> ModelToFields(members[i])])
            /\ projResult = IF FieldsToCsv(projFields) = "" THEN PyNone
                            ELSE PyStr(FieldsToCsv(projFields))
            /\ members = <<TCls("A"), TCls("B")>> => projResult = PyStr("x,y(a,b,c),z")
            /\ members = <<TCls("SimpleModel"), TCls("NestedModel")>> =>
                  projResult = PyStr("$type,id,shortName,value($type,id,shortName)")

C1_Witness ==
    /\ projModel = TAnnotated(AOrB)
    /\ projResult = PyStr("x,y(a,b,c),z")

\* The entity classes a type stands for: itself, or the members of a union
VariantsOf(model) ==
    IF model.k = "class" THEN {model.n}
    ELSE {UnionMembers(model)[i].n : i \in 1..Len(UnionMembers(model))}

\* No entity reachable from the type is reachable from its own fields
Acyclic(model) ==
    \A c \in RefClosure(VariantsOf(model)) : ~SelfReferenced(c)

RECURSIVE PathsOfType(_)
\* The field paths below a model: each field's wire key, followed by the
\* paths of the entities its annotation mentions (as an optional, as a
\* sequence element, as a union member)
PathsOfModel(c) ==
    UNION {{<<ModelFields(c)[i].alias>>}
           \cup {<<ModelFields(c)[i].alias>> \o p : p \in PathsOfType(ModelFields(c)[i].ann)}
           : i \in 1..Len(ModelFields(c))}
PathsOfType(t) ==
    IF t.k = "class" THEN PathsOfModel(t.n)
    ELSE UNION {PathsOfType(t.a[i]) : i \in 1..Len(t.a)}

RECURSIVE HasPath(_, _)
\* The selector names the field at path p
HasPath(tree, p) ==
    \/ p = <<>>
    \/ /\ tree.k = "dict"
       /\ HasKey(tree, Head(p))
       /\ HasPath(Get(tree, Head(p)), Tail(p))

\* C2: the selector of an entity type, or of a union of entity types, names
\* every field of every variant at every depth: each wire key on every field
\* path through nested entities, sequence elements and union-typed fields is
\* in the selector at that nesting position.
C2_SelectorComplete ==
    (projModel \in EntityInputs /\ Acyclic(projModel)) =>
        /\ ~IsRaise(projFields)
        /\ \A c \in VariantsOf(projModel) :
              \A p \in PathsOfModel(c) : HasPath(projFields, p)

C2_Witness ==
    /\ projModel = TCls("Issue")
    /\ <<"customFields", "projectCustomField", "field", "fieldType", "id">>
          \in PathsOfModel("Issue")
    /\ HasPath(projFields,
               <<"customFields", "projectCustomField", "field", "fieldType", "id">>)
    /\ HasPath(projFields, <<"customFields", "value", "ringId">>)

\* The types of the built-in entity model: its entities and its three unions
BuiltInInputs ==
    {TCls(c) : c \in Models}
    \cup {BundleElement, ProjectCustomFieldType, IssueCustomFieldType}

\* C4: projection terminates: every type of the built-in entity model gets
\* a selector, and a type with a field cycle is refused with an error of
\* the engine's own, not by recursing until the interpreter gives up
\* (RecursionError) and not by returning without an error.
C4_TerminatesOrDetectsCycle ==
    /\ projModel \in BuiltInInputs => projResult.k = "str"
    /\ (projModel \in EntityInputs /\ ~Acyclic(projModel)) =>
          (IsRaise(projResult) /\ projResult.v # "RecursionError")

\* C5: an input that is neither an entity type nor a union of entity types
\* makes model_to_field_names fail; it returns neither a selector nor None.
C5_NonEntityInputRaises ==
    projModel \in NonEntityInputs => IsRaise(projResult)

-----------------------------------------------------------------------------
(* Claims about the entity codec *)

RECURSIVE NullPreserved(_, _)
\* wire renders obj with its nulls: of every entity in obj, at whatever
\* depth, a field given as None is there as key: null, a field not given
\* whose default is None is not there
NullPreserved(obj, wire) ==
    CASE obj.k = "model" ->
            /\ wire.k = "dict"
            /\ \A i \in DOMAIN obj.v.dict :
                LET field == ModelFields(obj.v.cls)[i]
                    value == obj.v.dict[i][2]
                IN  /\ (field.name \in obj.v.fields_set /\ value.k = "NoneType") =>
                          (HasKey(wire, field.alias) /\ Get(wire, field.alias) = PyNone)
                    /\ (field.name \notin obj.v.fields_set /\ value.k = "NoneType") =>
                          ~HasKey(wire, field.alias)
                    /\ value.k \in {"model", "list", "tuple"} =>
                          (HasKey(wire, field.alias)
                           /\ NullPreserved(value, Get(wire, field.alias)))
      [] obj.k \in {"list", "tuple"} ->
            /\ wire.k \in {"list", "tuple"}
            /\ Len(wire.v) = Len(obj.v)
            /\ \A i \in DOMAIN obj.v : NullPreserved(obj.v[i], wire.v[i])
      [] OTHER -> TRUE

\* C6: obj_to_dict preserves nulls: a field explicitly set to None is in the
\* wire map as key: null and a field never set whose default is None is
\* omitted, at every depth, in nested entities and in entities that are
\* elements of a sequence, whatever container (list or tuple) holds them.
C6_NullsPreserved ==
    encObj.k = "model" => NullPreserved(encObj, encDict)

RECURSIVE Tagged(_, _)
\* Every mapping of wire that renders an entity of obj whose class declares
\* a discriminator has "$type" with the entity's tag
Tagged(obj, wire) ==
    CASE obj.k = "model" ->
            /\ wire.k = "dict"
            /\ TagsOf(obj.v.cls) # {} =>
                  (HasKey(wire, "$type") /\ Get(wire, "$type") = Attr(obj, "type"))
            /\ \A i \in DOMAIN obj.v.dict :
                obj.v.dict[i][2].k \in {"model", "list", "tuple"} =>
                    (HasKey(wire, ModelFields(obj.v.cls)[i].alias)
                     /\ Tagged(obj.v.dict[i][2],
                               Get(wire, ModelFields(obj.v.cls)[i].alias)))
      [] obj.k \in {"list", "tuple"} ->
            /\ wire.k \in {"list", "tuple"}
            /\ Len(wire.v) = Len(obj.v)
            /\ \A i \in DOMAIN obj.v : Tagged(obj.v[i], wire.v[i])
      [] OTHER -> TRUE

\* C7: in every wire map obj_to_dict produces, every mapping of an entity
\* whose type declares a discriminator has the key $type with that entity's
\* tag, at the top level and at every nested level, also when the caller
\* never set the discriminator.
C7_DiscriminatorOnWire ==
    encObj.k = "model" => Tagged(encObj, encDict)

\* An issue whose tags were given in a tuple, none with its discriminator
\* set, was encoded: the issue and its tag each carry their $type
C7_Witness ==
    /\ encObj.k = "model"
    /\ encObj.v.cls = "Issue"
    /\ "type" \notin encObj.v.fields_set
    /\ Attr(encObj, "tags").k = "tuple"
    /\ Len(Attr(encObj, "tags").v) = 1
    /\ "type" \notin Attr(encObj, "tags").v[1].v.fields_set
    /\ Get(encDict, "$type") = PyStr("Issue")
    /\ Get(Get(encDict, "tags").v[1], "$type") = PyStr("Tag")

\* C8: round trip: decoding the wire form of an entity built by a
\* constructor against the entity's type gives an entity equal to it, for
\* every variant, with its discriminator, aliased fields, nested unions and
\* date and datetime values.
C8_RoundTrip ==
    (encObj.k = "model" /\ decTarget # NoCall) => PyEq(decResult, encObj)

\* The variant of a union that declares tag as its discriminator default
DeclaredVariant(target, tag) ==
    CHOOSE c \in ChoicesOf(target) :
        \E i \in DOMAIN ModelFields(c) :
            /\ ModelFields(c)[i].alias = "$type"
            /\ ModelFields(c)[i].default.val = PyStr(tag)

\* The payload decoded has a tag of the union it was decoded against
TaggedPayload ==
    /\ decTarget \in UnionTargets
    /\ encObj = NoResult
    /\ HasKey(decPayload, "$type")
    /\ Get(decPayload, "$type").k = "str"
    /\ Get(decPayload, "$type").v \in UnionTags(decTarget)

UntaggedPayload ==
    /\ decTarget \in UnionTargets
    /\ encObj = NoResult
    /\ \/ ~HasKey(decPayload, "$type")
       \/ Get(decPayload, "$type").k # "str"
       \/ Get(decPayload, "$type").v \notin UnionTags(decTarget)

WireKeys(cls) == {ModelFields(cls)[i].alias : i \in DOMAIN ModelFields(cls)}

\* C11: wire keys are the only keys used on input and output: a decoded
\* field is populated only from its wire key, so a payload key that is the
\* declared name of a field with another alias (type for $type, short_name
\* for shortName) never populates it or decides the outcome, and an encoded
\* entity has wire keys only.
C11_WireKeysOnly ==
    /\ (decTarget \in EntityTargets /\ encObj = NoResult) =>
          LET fields == ModelFields(decTarget.n)
              IsWire(item) == item[1] \in WireKeys(decTarget.n)
              \* the payload without the keys that are no wire keys
              wire == PyDict(SelectSeq(decPayload.v, IsWire))
              \* the wire payload without the keys that, being also the name
              \* of another field, could populate that field
              IsOwn(item) == \A i \in DOMAIN fields :
                                fields[i].name = item[1] => fields[i].alias = item[1]
              own == PyDict(SelectSeq(wire.v, IsOwn))
          IN  /\ decResult.k = "model" =>
                    \A i \in DOMAIN fields :
                        fields[i].name \in decResult.v.fields_set =>
                            HasKey(decPayload, fields[i].alias)
              /\ IsRaise(decResult) => IsRaise(ValidateJson(decTarget, own))
    /\ encObj.k = "model" =>
          \A i \in DOMAIN encDict.v : encDict.v[i][1] \in WireKeys(encObj.v.cls)

\* The payload decoded against IssueCustomFieldType carries the tag of one
\* of the Multi* variants
MultiPayload ==
    /\ TaggedPayload
    /\ decTarget = IssueCustomFieldType
    /\ Get(decPayload, "$type").v \in MultiModels

\* The payload decoded against IssueCustomFieldType carries the tag of one
\* of the single-value variants
SinglePayload ==
    /\ TaggedPayload
    /\ decTarget = IssueCustomFieldType
    /\ Get(decPayload, "$type").v \notin MultiModels

\* C12: every Multi* issue custom field variant requires value: a payload
\* without the key value is refused with a decode error, one whose value is
\* the empty sequence decodes to the variant with an empty value; a payload
\* of a single-value variant without the key decodes with value null.
C12_MultiValueRequired ==
    /\ (MultiPayload /\ ~HasKey(decPayload, "value")) => decResult = ValidationError
    /\ (MultiPayload /\ GetOr(decPayload, "value", PyNone) = PyList(<<>>)) =>
          /\ decResult.k = "model"
          /\ decResult.v.cls = Get(decPayload, "$type").v
          /\ Attr(decResult, "value") = PyList(<<>>)
    /\ (SinglePayload /\ ~HasKey(decPayload, "value")) =>
          /\ decResult.k = "model"
          /\ decResult.v.cls = Get(decPayload, "$type").v
          /\ Attr(decResult, "value") = PyNone

\* A MultiUserIssueCustomField payload with an id and a name but no value
\* has been refused
C12_Witness ==
    /\ MultiPayload
    /\ Get(decPayload, "$type") = PyStr("MultiUserIssueCustomField")
    /\ HasKey(decPayload, "id")
    /\ ~HasKey(decPayload, "value")
    /\ decResult = ValidationError

RECURSIVE Finite(_)
\* No float that is not finite is in the structure
Finite(obj) ==
    CASE obj.k = "dict" -> \A i \in DOMAIN obj.v : Finite(obj.v[i][2])
      [] obj.k \in {"list", "tuple"} -> \A i \in DOMAIN obj.v : Finite(obj.v[i])
      [] obj.k = "float" -> obj.v \notin {"nan", "inf", "-inf"}
      [] OTHER -> TRUE

RECURSIVE Rendered(_, _)
\* wire is the rendering of obj: the same keys and the same positions, a
\* datetime as the integer of its milliseconds since the epoch, a date as
\* the milliseconds of its noon, every other scalar as it is
Rendered(obj, wire) ==
    CASE obj.k = "dict" ->
            /\ wire.k = "dict"
            /\ Len(wire.v) = Len(obj.v)
            /\ \A i \in DOMAIN obj.v :
                  /\ wire.v[i][1] = obj.v[i][1]
                  /\ Rendered(obj.v[i][2], wire.v[i][2])
      [] obj.k \in {"list", "tuple"} ->
            /\ wire.k = "list"
            /\ Len(wire.v) = Len(obj.v)
            /\ \A i \in DOMAIN obj.v : Rendered(obj.v[i], wire.v[i])
      [] obj.k = "datetime" ->
            /\ wire.k = "int"
            /\ wire.v[1] = obj.v[1]
            /\ wire.v[2] * 1000 <= obj.v[2]
            /\ obj.v[2] < (wire.v[2] + 1) * 1000
      [] obj.k = "date" ->
            /\ wire.k = "int"
            /\ wire.v[1] = obj.v * SecondsPerDay + TwelveHours
            /\ wire.v[2] = 0
      [] OTHER -> wire = obj

SiblingGiven ==
    /\ valData # NoResult
    /\ HasKey(valData, "project_custom_field")
    /\ Get(valData, "project_custom_field").k = "model"

\* The sibling has a field with a field type
SiblingTyped ==
    /\ SiblingGiven
    /\ Attr(Get(valData, "project_custom_field"), "field").k = "model"
    /\ Attr(Attr(Get(valData, "project_custom_field"), "field"), "field_type").k = "model"

\* The sibling's field.field_type.id is exactly "date and time"
SentinelSibling ==
    /\ SiblingTyped
    /\ Attr(Attr(Attr(Get(valData, "project_custom_field"), "field"), "field_type"), "id")
          = PyStr("date and time")

\* C14: with a sibling project_custom_field whose field.field_type.id is
\* exactly "date and time", the validator turns an integer candidate into
\* the UTC instant of that many milliseconds since the epoch (1704067200000
\* into 2024-01-01T00:00:00Z), returns an instant as it is, and leaves null
\* null.
C14_SentinelBranch ==
    SentinelSibling =>
        /\ valValue.k = "int" =>
              /\ valResult.k = "datetime"
              /\ valResult.v[1] = valValue.v[1]
              /\ valResult.v[2] = valValue.v[2] * 1000
        /\ valValue = [k |-> "int", v |-> <<1704067200, 0>>] =>
              valResult = PyDatetime(1704067200, 0)
        /\ valValue.k = "datetime" => valResult = valValue
        /\ valValue.k = "NoneType" => valResult = PyNone

\* The integer 1704067200123 has been validated beside a sibling of field
\* type "date and time"
C14_Witness ==
    /\ SentinelSibling
    /\ valValue = [k |-> "int", v |-> <<1704067200, 123>>]
    /\ valResult = PyDatetime(1704067200, 123000)

\* A SimpleIssueCustomField payload has been decoded whose sibling
\* projectCustomField has the field type "date and time" and whose value is
\* neither null nor an integer
MalformedDateTimePayload ==
    /\ TaggedPayload
    /\ decTarget = IssueCustomFieldType
    /\ Get(decPayload, "$type") = PyStr("SimpleIssueCustomField")
    /\ GetOr(decPayload, "projectCustomField", PyNone) = DateTimeSibling
    /\ HasKey(decPayload, "value")
    /\ Get(decPayload, "value").k \in {"str", "float"}

\* C15: decoding a SimpleIssueCustomField payload whose sibling
\* project_custom_field has the field type id "date and time" and whose
\* value is a string or a float fails with a decode error; no entity that
\* carries the raw value is produced.
C15_MalformedDateTimeRefused ==
    MalformedDateTimePayload => decResult = ValidationError

\* C16: when the sibling project_custom_field is null, or is an entity
\* whose field type id is not exactly "date and time" (one whose field or
\* field_type is itself null included), the validator returns the candidate
\* unchanged, whatever its type, and raises no error.
C16_PassThrough ==
    (/\ valData # NoResult
     /\ HasKey(valData, "project_custom_field")
     /\ ~SentinelSibling) => valResult = valValue

\* C17: when info.data has no key project_custom_field, the validator
\* raises a RuntimeError for every candidate, the ones it would otherwise
\* return unchanged included.
C17_SiblingKeyRequired ==
    (valData # NoResult /\ ~HasKey(valData, "project_custom_field")) =>
        valResult = Raise("RuntimeError")

\* The validator has been called with None and data that has another key
\* but not project_custom_field
C17_Witness ==
    /\ valData # NoResult
    /\ HasKey(valData, "id")
    /\ ~HasKey(valData, "project_custom_field")
    /\ valValue = PyNone
    /\ valResult = Raise("RuntimeError")

\* C18: the outcome of _send_request is decided by the status code alone:
\* 404 raises YouTrackNotFound, 401 raises YouTrackUnauthorized, every
\* other status that is not 2xx raises YouTrackException, and only a 2xx
\* status returns, None for an empty content and the content otherwise;
\* the errors are raised whether the content is empty or not.
C18_StatusMapping ==
    (reqCall # NoResult /\ reqCall[1] = "_send_request") =>
        /\ respStatus = 404 => (callOutcome.k = "raise" /\ callOutcome.v = "YouTrackNotFound")
        /\ respStatus = 401 => (callOutcome.k = "raise" /\ callOutcome.v = "YouTrackUnauthorized")
        /\ (respStatus \notin {401, 404} /\ (respStatus < 200 \/ respStatus > 299)) =>
              (callOutcome.k = "raise" /\ callOutcome.v = "YouTrackException")
        /\ (200 <= respStatus /\ respStatus <= 299) =>
              /\ callOutcome.k = "return"
              /\ respContent = EmptyContent => callOutcome.v = PyNone
              /\ respContent # EmptyContent => callOutcome.v = respContent

\* A request has been answered with the redirect 302 and a content that is
\* not empty, and YouTrackException has been raised
C18_Witness ==
    /\ reqCall # NoResult
    /\ reqCall[1] = "_send_request"
    /\ respStatus = 302
    /\ respContent # EmptyContent
    /\ callOutcome.k = "raise"
    /\ callOutcome.v = "YouTrackException"

\* The last call was answered 2xx with an empty content
EmptySuccess ==
    /\ reqCall # NoResult
    /\ 200 <= respStatus /\ respStatus <= 299
    /\ respContent = EmptyContent

\* C19: a call made through _get_bytes or _post_bytes raises
\* YouTrackException about an empty response when the server answers 2xx
\* with an empty content, and gives nothing to the decoder; delete_issue,
\* delete_issue_comment, delete_issue_link and add_issue_tag return None.
C19_EmptyBody ==
    /\ (EmptySuccess
        /\ reqCall[1] \in {call[1] : call \in EntityCalls} \cup {"hide_issue_comment"}) =>
          /\ callOutcome.k = "raise"
          /\ callOutcome.v = "YouTrackException"
          /\ callOutcome.msg[1] = "Unexpected empty response from "
          /\ ~callOutcome.decoded
    /\ (EmptySuccess /\ reqCall[1] \in {call[1] : call \in NothingCalls}) =>
          /\ callOutcome.k = "return"
          /\ callOutcome.v = PyNone

\* create_issue has been answered 204 without content and has raised
\* YouTrackException
C19_Witness ==
    /\ EmptySuccess
    /\ reqCall[1] = "create_issue"
    /\ respStatus = 204
    /\ callOutcome.k = "raise"
    /\ callOutcome.v = "YouTrackException"
    /\ ~callOutcome.decoded

\* C20: every YouTrackException the client raises, for an unexpected status
\* code and for an unexpected empty content alike, has a message with the
\* HTTP method, the URL of the request and the status code of the response.
C20_ErrorMessage ==
    (/\ reqCall # NoResult
     /\ callOutcome.k = "raise"
     /\ callOutcome.v = "YouTrackException") =>
        /\ \E i \in DOMAIN callOutcome.msg : callOutcome.msg[i] = reqCall[2]
        /\ \E i \in DOMAIN callOutcome.msg : callOutcome.msg[i] = reqCall[3]
        /\ \E i \in DOMAIN callOutcome.msg : callOutcome.msg[i] = ToString(respStatus)

-----------------------------------------------------------------------------
(* Claims about the helpers of an issue, the URL and the merge *)

\* The positions of the issue's custom fields that have the name looked up
Matches ==
    {i \in DOMAIN CustomFieldsOf(lookupIssue) :
        Attr(CustomFieldsOf(lookupIssue)[i], "name") = lookupName}

\* C22: get_issue_custom_field(issue, name) returns the custom field of
\* the issue that has the name when exactly one has it, and raises
\* NonSingleValueError when none or more than one has it, an issue whose
\* custom_fields is None or empty included.
C22_SingleCustomField ==
    lookupIssue # NoResult =>
        /\ Cardinality(Matches) = 1 =>
              lookupResult = CustomFieldsOf(lookupIssue)[CHOOSE i \in Matches : TRUE]
        /\ Cardinality(Matches) # 1 => lookupResult = Raise("NonSingleValueError")

\* An issue with two custom fields named State and one named Priority has
\* been asked for State, and NonSingleValueError has been raised
C22_Witness ==
    /\ lookupIssue # NoResult
    /\ lookupName = PyStr("State")
    /\ Len(CustomFieldsOf(lookupIssue)) = 3
    /\ Cardinality(Matches) = 2
    /\ lookupResult = Raise("NonSingleValueError")

\* The parameters of the last _build_url call, by key: fields, $skip for
\* offset, $top for count, then the caller's, a key given twice having the
\* caller's value at its first place
UrlParams ==
    PutAll(PyDict(<<<<"fields", urlArgs[1]>>, <<"$skip", urlArgs[2]>>,
                    <<"$top", urlArgs[3]>>>>), urlArgs[4]).v

\* The parameters that are not None
GivenParams == SelectSeq(UrlParams, LAMBDA item : item[2].k # "NoneType")

\* C24 as stated: the query of the URL has exactly the parameters whose
\* value is not None, each once under its key and in the order fields,
\* $skip, $top, extras; a value such as 0 or False appears, and a bool is
\* rendered true or false.
C24_NonNullParams ==
    urlArgs # NoResult =>
        /\ Len(urlResult[5]) = Len(GivenParams)
        /\ \A i \in DOMAIN GivenParams :
              /\ urlResult[5][i][1] = QuotePlus(GivenParams[i][1])
              /\ GivenParams[i][2].k = "bool" =>
                    urlResult[5][i][2] = (IF GivenParams[i][2].v THEN "true" ELSE "false")

\* The pairs a parameter is rendered as: one for each element when its
\* value is a sequence, else one
PairsOf(item) == IF item[2].k \in {"list", "tuple"} THEN Len(item[2].v) ELSE 1

RECURSIVE PairsBefore(_, _)
\* The number of pairs the first n given parameters are rendered as
PairsBefore(params, n) ==
    IF n = 0 THEN 0 ELSE PairsBefore(params, n - 1) + PairsOf(params[n])

\* C24 amended: the query has the parameters whose value is not None, in
\* the order fields, $skip, $top, extras: one pair for a scalar (0 and False
\* included, a bool as true or false) and one pair for each element of a
\* sequence, so none for an empty sequence; a None parameter never appears.
C24_NonNullParamsBySequence ==
    urlArgs # NoResult =>
        /\ Len(urlResult[5]) = PairsBefore(GivenParams, Len(GivenParams))
        /\ \A i \in DOMAIN GivenParams :
              \A j \in 1..PairsOf(GivenParams[i]) :
                 LET pair == urlResult[5][PairsBefore(GivenParams, i - 1) + j]
                     value == GivenParams[i][2]
                 IN  /\ pair[1] = QuotePlus(GivenParams[i][1])
                     /\ value.k = "bool" => pair[2] = (IF value.v THEN "true" ELSE "false")
                     /\ value.k = "int" => pair[2] = Str(value)
                     /\ value.k = "str" => pair[2] = QuotePlus(value.v)
                     /\ value.k \in {"list", "tuple"} => pair[2] = QuotePlus(Str(value.v[j]))

\* A URL has been built from offset 0, no count, a query and two custom
\* fields: $skip=0 is in it, $top is not, customFields is there twice
C24_Witness ==
    /\ urlArgs # NoResult
    /\ urlArgs[2] = PyInt(0)
    /\ urlArgs[3] = PyNone
    /\ urlArgs[1] = PyNone
    /\ Len(urlArgs[4]) = 2
    /\ urlArgs[4][1][1] = "query"
    /\ urlArgs[4][1][2] # PyNone
    /\ urlResult[5] = <<<<"%24skip", "0">>, <<"query", "project%3A+YT">>,
                        <<"customFields", "State">>, <<"customFields", "Priority">>>>

\* The last deep_update call had one mapping, and dest and the mapping have
\* a list under the key k
ListsMerged ==
    /\ mergeResult # NoResult
    /\ Len(mergeArgs) = 2
    /\ HasKey(mergeArgs[1], "k")
    /\ HasKey(mergeArgs[2], "k")
    /\ Get(mergeArgs[1], "k").k = "list"
    /\ Get(mergeArgs[2], "k").k = "list"

\* C26: for lists under one key in dest and source, deep_update returns
\* the lists merged element by element when their lengths are equal,
\* whatever the elements are, and raises TypeError when the lengths differ;
\* it raises nothing else.
C26_ListRule ==
    ListsMerged =>
        LET xs == Get(mergeArgs[1], "k").v
            ys == Get(mergeArgs[2], "k").v
        IN  /\ Len(xs) # Len(ys) => mergeResult = Raise("TypeError")
            /\ Len(xs) = Len(ys) =>
                  /\ ~IsRaise(mergeResult)
                  /\ Get(mergeResult, "k").k = "list"
                  /\ Len(Get(mergeResult, "k").v) = Len(xs)
            /\ IsRaise(mergeResult) => mergeResult.v = "TypeError"

RECURSIVE IsFieldTree(_)
\* A field tree: a dict whose values are field trees
IsFieldTree(x) ==
    /\ x.k = "dict"
    /\ \A i \in DOMAIN x.v : IsFieldTree(x.v[i][2])

\* The last deep_update call was given field trees only
TreesMerged ==
    /\ mergeResult # NoResult
    /\ \A i \in DOMAIN mergeArgs : IsFieldTree(mergeArgs[i])

RECURSIVE KeysAreUnion(_, _)
\* The keys of result are those of the operands together, and so at every
\* level below: under a key, for the operands that have it
KeysAreUnion(result, operands) ==
    /\ result.k = "dict"
    /\ KeySet(result) = UNION {KeySet(operands[i]) : i \in DOMAIN operands}
    /\ \A key \in KeySet(result) :
          LET Has(operand) == HasKey(operand, key)
              having == SelectSeq(operands, Has)
          IN  KeysAreUnion(Get(result, key), [i \in DOMAIN having |-> Get(having[i], key)])

-----------------------------------------------------------------------------
(* Claims about the two views obj_to_dict merges *)

RECURSIVE ViewsAgree(_, _)
\* Two dumps have the same structural type, sequences of equal length, and
\* so at every key they share and at every place of a sequence
ViewsAgree(a, b) ==
    CASE a.k # b.k -> FALSE
      [] a.k = b.k /\ a.k = "dict" ->
            \A key \in KeySet(a) \cap KeySet(b) : ViewsAgree(Get(a, key), Get(b, key))
      [] a.k = b.k /\ a.k \in {"list", "tuple"} ->
            /\ Len(a.v) = Len(b.v)
            /\ \A i \in DOMAIN a.v : ViewsAgree(a.v[i], b.v[i])
      [] OTHER -> TRUE

\* C27: for every entity given to obj_to_dict, the dump of the fields that
\* were set and the dump of the fields that are not None have, at every key
\* of both, the same structural type and sequences of equal length, and
\* obj_to_dict returns a dict: it raises no structural-mismatch error.
C27_ViewsAgree ==
    encObj.k = "model" =>
        /\ ViewsAgree(ModelDump(encObj, "exclude_unset"), ModelDump(encObj, "exclude_none"))
        /\ ~IsRaise(encDict)

\* An entity that holds some field set to None
HoldsNone(e) ==
    /\ e.k = "model"
    /\ \E i \in DOMAIN e.v.dict :
          /\ e.v.dict[i][2].k = "NoneType"
          /\ e.v.dict[i][1] \in e.v.fields_set

\* obj_to_dict was given an entity with a sequence of two entities, one of
\* which has a field set to None, and returned a dict
C27_Witness ==
    /\ encObj.k = "model"
    /\ \E i \in DOMAIN encObj.v.dict :
          /\ encObj.v.dict[i][2].k \in {"list", "tuple"}
          /\ Len(encObj.v.dict[i][2].v) = 2
          /\ \E j \in 1..2 : HoldsNone(encObj.v.dict[i][2].v[j])
    /\ encDict.k = "dict"

-----------------------------------------------------------------------------
(* Claims about the tags of the unions *)

\* The type-name enumeration of a union
TypeNamesOf(target) ==
    CASE target = BundleElement -> BundleElementTypeName
      [] target = ProjectCustomFieldType -> ProjectCustomFieldTypeName
      [] target = IssueCustomFieldType -> IssueCustomFieldTypeName

\* The variants of a union that declare a tag
Declaring(target, tag) == {c \in ChoicesOf(target) : tag \in TagsOf(c)}

\* In each union the tags of two variants are distinct, every tag a variant
\* declares is of the enumeration, and every tag of the enumeration is
\* declared by one variant
TagsBijective ==
    \A target \in UnionTargets :
        /\ \A c \in ChoicesOf(target), d \in ChoicesOf(target) :
              c # d => TagsOf(c) \cap TagsOf(d) = {}
        /\ \A c \in ChoicesOf(target) :
              /\ Cardinality(TagsOf(c)) = 1
              /\ TagsOf(c) \subseteq TypeNamesOf(target)
        /\ \A tag \in TypeNamesOf(target) : Cardinality(Declaring(target, tag)) = 1

\* A payload tagged with a value of the union's enumeration was decoded
\* against the union into an entity
TagDispatched ==
    /\ decTarget \in UnionTargets
    /\ decPayload.k = "dict"
    /\ HasKey(decPayload, "$type")
    /\ Get(decPayload, "$type").k = "str"
    /\ Get(decPayload, "$type").v \in TypeNamesOf(decTarget)
    /\ decResult.k = "model"

\* C29: in BundleElement, ProjectCustomFieldType and IssueCustomFieldType
\* the variants' tags are pairwise distinct and every tag of the type-name
\* enumeration is declared by exactly one variant, so a payload's tag
\* dispatches to the one variant that declares it.
C29_TagBijection ==
    /\ TagsBijective
    /\ TagDispatched => Declaring(decTarget, Get(decPayload, "$type").v) = {decResult.v.cls}

\* A payload tagged SimpleProjectCustomField was decoded against
\* ProjectCustomFieldType into a SimpleProjectCustomField
C29_Witness ==
    /\ TagDispatched
    /\ decTarget = ProjectCustomFieldType
    /\ Get(decPayload, "$type").v = "SimpleProjectCustomField"
    /\ decResult.v.cls = "SimpleProjectCustomField"

-----------------------------------------------------------------------------
(* Claims about the calls of the asynchronous client *)

\* The type of the entities a call decodes: T for T and for a sequence of T
EntityOf(target) == IF target.k = "Sequence" THEN target.a[1] ELSE target

\* Task t has issued the request of a call that decodes its response
Decoding(t) ==
    /\ tasks[t].requests >= 1
    /\ tasks[t].call.via = "bytes"

\* C23 as stated: the fields parameter of the request of every call that
\* decodes its response into T, or into a sequence of T, is
\* model_to_field_names(T), nothing added to it.
C23_FieldsAreProjection ==
    \A t \in Tasks :
        Decoding(t) =>
            /\ HasKey(tasks[t].params, "fields")
            /\ Get(tasks[t].params, "fields") = Selectors[EntityOf(tasks[t].call.target)]

\* What holds of C23: so it is for every such call but
\* get_project_custom_fields, whose fields parameter is
\* model_to_field_names(ProjectCustomFieldType) followed by
\* ,field(name,fieldType(id)),bundle(values(id,name)).
C23_FieldsAreProjectionButOne ==
    \A t \in Tasks :
        Decoding(t) =>
            /\ HasKey(tasks[t].params, "fields")
            /\ Get(tasks[t].params, "fields") =
                  IF tasks[t].call.name = "get_project_custom_fields"
                  THEN PyStr(Selectors[ProjectCustomFieldType].v
                             \o ",field(name,fieldType(id)),bundle(values(id,name))")
                  ELSE Selectors[EntityOf(tasks[t].call.target)]

\* get_sprints has issued its request, with the selector of Sprint as its
\* fields parameter, while a get_issue prepares its own
C23_Witness ==
    /\ Decoding(1)
    /\ tasks[1].call.name = "get_sprints"
    /\ tasks[1].pc = "awaiting"
    /\ Get(tasks[1].params, "fields") = Selectors[TCls("Sprint")]
    /\ tasks[2].pc = "encode"
    /\ tasks[2].call.name = "get_issue"

\* What a call raises when its request fails, "" when the request does not:
\* the exception of the transport, the errors of the status codes, the
\* error of an empty response where bytes are required
FailureOf(call, response) ==
    CASE response.k = "raise" -> response.v
      [] response.k = "response" /\ response.v[1] = NOT_FOUND -> "YouTrackNotFound"
      [] response.k = "response" /\ response.v[1] = UNAUTHORIZED -> "YouTrackUnauthorized"
      [] response.k = "response" /\ response.v[1] \notin {NOT_FOUND, UNAUTHORIZED}
         /\ ~IsSuccess(response.v[1]) -> "YouTrackException"
      [] response.k = "response" /\ IsSuccess(response.v[1])
         /\ response.v[2] = EmptyContent /\ call.via = "bytes" -> "YouTrackException"
      [] OTHER -> ""

\* The response of a finished call cannot be decoded against its type
Undecodable(call, response) ==
    /\ FailureOf(call, response) = ""
    /\ call.via = "bytes"
    /\ IsRaise(ValidateJson(call.target, response.v[2].v[1]))

\* Every failure of the request of a finished call has left the call as the
\* exception it is: of the transport, of the status code, of an empty
\* response, of the decoding
FailuresPropagate ==
    \A t \in Tasks :
        (tasks[t].pc = "done" /\ tasks[t].response # NoResult) =>
            /\ FailureOf(tasks[t].call, tasks[t].response) # "" =>
                  tasks[t].outcome =
                     [k |-> "raise", v |-> FailureOf(tasks[t].call, tasks[t].response)]
            /\ Undecodable(tasks[t].call, tasks[t].response) =>
                  tasks[t].outcome = [k |-> "raise", v |-> "ValidationError"]

\* C21 as stated: a call makes exactly one request, and a failure of the
\* request leaves the call as its exception without a second request.
C21_ExactlyOneRequest ==
    /\ \A t \in Tasks :
          /\ tasks[t].requests <= 1
          /\ tasks[t].pc = "done" => tasks[t].requests = 1
    /\ FailuresPropagate

\* C21 amended: a call makes at most one request, exactly one unless its
\* body cannot be encoded, in which case it raises before any request; a
\* failure of the request leaves the call as its exception without a second
\* request.
C21_AtMostOneRequest ==
    /\ \A t \in Tasks :
          /\ tasks[t].requests <= 1
          /\ tasks[t].pc = "done" =>
                \/ tasks[t].requests = 1
                \/ /\ tasks[t].requests = 0
                   /\ IsRaise(tasks[t].content)
                   /\ tasks[t].outcome = Kind(tasks[t].content)
                   /\ tasks[t].response = NoResult
    /\ FailuresPropagate

\* get_issue has raised the connect timeout of its one request, and a
\* create_issue the error of a 500
C21_Witness ==
    /\ tasks[1].pc = "done"
    /\ tasks[1].call.name = "get_issue"
    /\ tasks[1].requests = 1
    /\ tasks[1].response = Raise("ConnectTimeout")
    /\ tasks[1].outcome = [k |-> "raise", v |-> "ConnectTimeout"]
    /\ tasks[2].pc = "done"
    /\ tasks[2].call.name = "create_issue"
    /\ tasks[2].requests = 1
    /\ tasks[2].outcome = [k |-> "raise", v |-> "YouTrackException"]

\* The block has been left
Left == block \in {"left", "left by exception"}

\* C25: the httpx client is open whenever the caller is inside the async
\* with block, closed once the block has been left, by its end or by an
\* exception, and not closed before that.
C25_OpenInsideClosedAfter ==
    /\ block = "inside" => httpClient = "OPENED"
    /\ Left => httpClient = "CLOSED"
    /\ httpClient = "CLOSED" => Left

\* The block was left by an exception after a call made inside it had
\* raised, and the client is closed
C25_Witness ==
    /\ block = "left by exception"
    /\ httpClient = "CLOSED"
    /\ tasks[1].pc = "done"
    /\ tasks[1].requests = 1
    /\ tasks[1].outcome = [k |-> "raise", v |-> "YouTrackNotFound"]

\* Task t is in the middle of a run: it has taken a step and the next one
\* follows without an await
Mid(task) == task.pc \in {"url", "encode", "request", "status", "decode"}

\* What a call has when it has issued its request: its selector, its URL
\* and its body
Prepared(task) ==
    /\ task.fields # NoResult
    /\ task.params # NoResult
    /\ task.content # NoResult
    /\ ~IsRaise(task.content)

\* The order of a call: the request is issued when selector, URL and body
\* are there, and the response is looked at when the task was resumed
InOrder(task) ==
    /\ task.requests >= 1 => Prepared(task)
    /\ task.pc \in {"status", "decode"} => task.response # NoResult
    /\ task.pc \in {"idle", "select", "url", "encode", "request", "awaiting"} =>
          task.response = NoResult /\ task.outcome = NoResult

\* C28: a call computes its selector, builds its URL and encodes its body
\* before it issues the request, maps the status and decodes after it was
\* resumed; a step of one task is never taken in the middle of a run of
\* another, and changes no other task's locals.
C28_OneSuspensionPoint ==
    [][\A t \in Tasks :
          /\ InOrder(tasks'[t])
          /\ tasks'[t] # tasks[t] =>
                \A u \in Tasks \ {t} : tasks'[u] = tasks[u] /\ ~Mid(tasks[u])]_vars

\* A get_issue is awaiting its response while a create_issue, started after
\* it, has encoded its body and is about to issue its request
C28_Witness ==
    /\ tasks[1].pc = "awaiting"
    /\ tasks[1].call.name = "get_issue"
    /\ tasks[2].pc = "request"
    /\ tasks[2].call.name = "create_issue"
    /\ tasks[2].content.k = "dict"
    /\ running = 2

====
